---- MODULE Spec2Model ----
(***************************************************************************)
(* NexusOptim field-node firmware: the LoRaWAN uplink engine               *)
(* (lorawan_handler.c) and the FreeRTOS tasks that call it                 *)
(* (main.c, main_electrical.c, main_water.c, main_lorawan_only.c).         *)
(*                                                                         *)
(* Specifications over the engine's actions:                               *)
(*   Spec      - one client task calls the engine API in any order with    *)
(*               any arguments (the engine's contract as a library);       *)
(*   SpecTasks - the uplink task and the emergency task (vSafetyTask /     *)
(*               vLeakDetectionTask) of the electrical and water variants, *)
(*               interleaved as the FreeRTOS priorities allow;             *)
(*   SpecAll   - both of the above;                                        *)
(*   SpecLive  - Spec with a fair radio and a running sender;              *)
(*   SpecWrap  - Spec from a session close to the end of the 16-bit frame  *)
(*               counter;                                                  *)
(*   SpecClock - the client of Spec with the millisecond timestamp running *)
(*               round its range (init, join and send only);               *)
(*   SpecClockLive - SpecClock with a running timer, a fair radio and a    *)
(*               spinning poll loop.                                       *)
(* Specifications of the tasks around the engine:                          *)
(*   SpecAdc    - the ADC interrupt and the reads of vElectricalTask;      *)
(*   SpecPipe   - the measurement queue between producer and uplink task;  *)
(*   SpecSafety - the safety masks of main_electrical.c;                   *)
(*   SpecLeak   - the leak-check cycles of main_water.c;                   *)
(*   SpecPower  - the battery bands of main_lorawan_only.c;                *)
(*   SpecAnalysis - power factor and quality grade of vElectricalTask;     *)
(*   SpecPayload  - the energy payload and its CRC (main_electrical.c);    *)
(*   SpecUplink - the uplink task alone, with a fair scheduler and radio;  *)
(*   SpecRetry  - the send loop of vLoRaWANTask (main_lorawan_only.c);     *)
(*   SpecDegrade - that loop and vPowerTask;                               *)
(*   SpecStart  - the start of that task (init, join) and vPowerTask;      *)
(*   SpecMutex  - the tasks that take xADCMutex / xI2CMutex;               *)
(*   SpecAlarm  - vElectricalTask and vSafetyTask of main_electrical.c in  *)
(*               tick time.                                                *)
(***************************************************************************)
EXTENDS Integers, Sequences, FiniteSets, TLC

VARIABLES
    lorawan_state,      \* static lorawan_state_t lorawan_state
    session,            \* static lorawan_session_t session
    last_tx_timestamp,  \* static uint32_t last_tx_timestamp
    last_rssi,          \* static int8_t last_rssi
    last_snr,           \* static int8_t last_snr
    now,                \* lorawan_get_timestamp(): TIM2 counter / 1000, in ms
    radio,              \* the SX1262: operating mode and received frame
    air,                \* frames handed to sx1262_send, in transmission order
    pc,                 \* per task: position inside the engine function it runs
    loc,                \* per task: locals of the engine function it runs
    ret,                \* per task: result of its last completed engine call
    call,               \* per task: the last call, the state it was issued in, wraps of the timestamp since it read the clock
    h_last_ok,          \* time the last successful lorawan_send read the clock, -1 if none
    h_wraps,            \* times the timestamp has wrapped since then, 2 for more
    h_reset,            \* lorawan_reset was called after the last lorawan_init
    h_sent,             \* successful lorawan_send calls since the session began
    h_sleep,            \* session and frames sent when lorawan_sleep was last called
    phase,              \* per task: position in the task function (SpecTasks)
    variant,            \* "api" (Spec), "electrical" or "water" (SpecTasks)
    adc_buffer,         \* adc_buffer_voltage / adc_buffer_current (main_electrical.c)
    adc_buffer_index,   \* volatile uint16_t adc_buffer_index
    adc_buffer_ready,   \* volatile bool adc_buffer_ready
    adc_on,             \* the ADC converts and raises its end-of-conversion interrupt
    elec_pc,            \* position of vElectricalTask in its loop
    h_window,           \* the buffer is marked ready and the index not yet reset
    fw,                 \* firmware variant of the telemetry pipeline
    mbox,               \* number of items in the telemetry queue
    prod_pc,            \* position of the sensing / analysis task
    cons_pc,            \* position of the uplink task around its lorawan_send
    retry_count,        \* uint8_t retry_count of vLoRaWANTask (main_lorawan_only.c)
    device_config,      \* lorawan_only_config_t device_config (main_lorawan_only.c)
    h_writers,          \* per field of device_config, the tasks that have written it
    h_silent,           \* a measurement was discarded and its producer did not look
    h_flushed,          \* the producer has just called xQueueReset
    h_unreacted,        \* a dequeued item was given up with no retry and no change
    alert_q,            \* xSafetyAlertQueue: the masks posted and not yet received
    safety_alert,       \* uint8_t safety_alert of vSafetyTask
    safety_pc,          \* position of vSafetyTask in its loop
    h_posted,           \* number of masks posted so far
    h_emergency,        \* an emergency was issued for the mask in safety_alert
    pressure_history,   \* static float pressure_history[10] of main_water.c
    pressure_index,     \* static uint8_t pressure_index
    pressure_trend,     \* float pressure_trend of vLeakDetectionTask
    leak_pc,            \* position of vLeakDetectionTask in its cycle
    h_readings,         \* the readings taken so far, oldest first
    h_leak,             \* the last finished cycle raised the leak alert
    battery_level,      \* uint8_t battery_level of vPowerTask
    power_pc,           \* position of vPowerTask in its loop
    electrical_data,    \* electrical_data_t electrical_data of vElectricalTask
    ana_pc,             \* position of vElectricalTask in its analysis
    tx_data,            \* electrical_data_t electrical_data of vLoRaWANTask
    payload,            \* uint8_t payload[24], the bytes written so far
    idx,                \* uint8_t idx
    pay_pc,             \* position of vLoRaWANTask in the payload block
    h_handed,           \* the buffer and length passed to lorawan_send
    packet_sequence,    \* uint16_t packet_sequence of vLoRaWANTask (main_lorawan_only.c)
    h_calls,            \* lorawan_send calls made for the packet in hand
    h_wait_ms,          \* time spent in the retry delays for the packet in hand
    h_seq0,             \* packet_sequence when the packet in hand was taken
    boot_pc,            \* position of vLoRaWANTask (main_lorawan_only.c) before its loop
    init_retries,       \* uint8_t init_retries
    h_join,             \* whether lorawan_join failed, and sampling_rate when it was called
    h_init_ok,          \* some lorawan_init call of vLoRaWANTask returned LORAWAN_SUCCESS
    mx_fw,              \* the firmware whose main created the mutex, "none" before
    mutex,              \* holder of xADCMutex / xI2CMutex, "none" when it is free
    mx_pc,              \* position of each task that takes the mutex in its loop, 0 = not created
    alarm_ms,           \* the tick count of main_electrical.c, in ms
    elec_due,           \* tick at which vTaskDelayUntil releases vElectricalTask
    safety_due,         \* tick at which the block time or delay of vSafetyTask ends
    h_lost              \* a mask with a critical flag was not queued

vars == <<lorawan_state, session, last_tx_timestamp, last_rssi, last_snr, now,
          radio, air, pc, loc, ret, call, h_last_ok, h_wraps, h_reset, h_sent, h_sleep, phase,
          variant, adc_buffer, adc_buffer_index, adc_buffer_ready, adc_on,
          elec_pc, h_window, fw, mbox, prod_pc, cons_pc, retry_count,
          device_config, h_writers, h_silent, h_flushed, h_unreacted, alert_q, safety_alert,
          safety_pc, h_posted, h_emergency, pressure_history, pressure_index,
          pressure_trend, leak_pc, h_readings, h_leak, battery_level, power_pc,
          electrical_data, ana_pc,
          tx_data, payload, idx, pay_pc, h_handed,
          packet_sequence, h_calls, h_wait_ms, h_seq0,
          boot_pc, init_retries, h_join, h_init_ok,
          mx_fw, mutex, mx_pc,
          alarm_ms, elec_due, safety_due, h_lost>>

\* the engine, its callers and their history
core == <<lorawan_state, session, last_tx_timestamp, last_rssi, last_snr, now,
          radio, air, pc, loc, ret, call, h_last_ok, h_wraps, h_reset, h_sent, h_sleep, phase,
          variant>>

\* the acquisition buffer of main_electrical.c
adcv == <<adc_buffer, adc_buffer_index, adc_buffer_ready, adc_on, elec_pc, h_window>>

\* the telemetry queue between the sensing task and the uplink task
pipev == <<fw, mbox, prod_pc, cons_pc, retry_count, h_silent, h_flushed, h_unreacted>>

\* the run-time configuration of main_lorawan_only.c
cfgv == <<device_config, h_writers>>

\* the safety alerts of main_electrical.c
safev == <<alert_q, safety_alert, safety_pc, h_posted, h_emergency>>

\* the leak detection of main_water.c
leakv == <<pressure_history, pressure_index, pressure_trend, leak_pc, h_readings, h_leak>>

\* the power management of main_lorawan_only.c
powv == <<battery_level, power_pc>>

\* the analysis results of main_electrical.c
anav == <<electrical_data, ana_pc>>

\* the payload of main_electrical.c
payv == <<tx_data, payload, idx, pay_pc, h_handed>>

\* the retry loop of main_lorawan_only.c
retryv == <<packet_sequence, h_calls, h_wait_ms, h_seq0>>

\* the start of vLoRaWANTask in main_lorawan_only.c
bootv == <<boot_pc, init_retries, h_join, h_init_ok>>

\* the shared mutex and the tasks that take it
mutv == <<mx_fw, mutex, mx_pc>>

\* the electrical and the safety task on the tick clock
alarmv == <<alarm_ms, elec_due, safety_due, h_lost>>

\* everything outside the engine and its callers
periph == <<adcv, pipev, cfgv, safev, leakv, powv, anav, payv, retryv, bootv, mutv, alarmv>>

\* what each part of the firmware outside the engine leaves alone
notadc == <<core, pipev, cfgv, safev, leakv, powv, anav, payv, retryv, bootv, mutv, alarmv>>
notpipe == <<core, adcv, safev, leakv, powv, anav, payv, retryv, bootv, mutv, alarmv>>
notsafe == <<core, adcv, pipev, cfgv, leakv, powv, anav, payv, retryv, bootv, mutv, alarmv>>
notleak == <<core, adcv, pipev, cfgv, safev, powv, anav, payv, retryv, bootv, mutv, alarmv>>
notpower == <<core, adcv, pipev, safev, leakv, anav, payv, retryv, bootv, mutv, alarmv>>
notana == <<core, adcv, pipev, cfgv, safev, leakv, powv, payv, retryv, bootv, mutv, alarmv>>
notpay == <<core, adcv, pipev, cfgv, safev, leakv, powv, anav, retryv, bootv, mutv, alarmv>>
notretry == <<core, adcv, safev, leakv, powv, anav, payv, bootv, mutv, alarmv>>
notboot == <<core, adcv, pipev, safev, leakv, powv, anav, payv, retryv, mutv, alarmv>>
notmut == <<core, adcv, pipev, cfgv, safev, leakv, powv, anav, payv, retryv, bootv, alarmv>>
notalarm == <<core, adcv, pipev, cfgv, leakv, powv, anav, payv, retryv, bootv, mutv>>

engine == <<lorawan_state, session, last_tx_timestamp, last_rssi, last_snr>>

(***************************************************************************)
(* Bounds of the model.                                                    *)
(***************************************************************************)
MaxGaps == 2
MaxAir == 3
AdcBufferSlots == 4     \* stands for ADC_BUFFER_SIZE, 4096 in main_electrical.c
MaxAlerts == 2          \* safety masks posted in one run
MaxCycles == 10         \* leak-check cycles in one run
MaxPackets == 4         \* packets sent by the LoRaWAN-only uplink task in one run
MaxAlarmMs == 11000     \* ticks of the electrical firmware followed in one run

(***************************************************************************)
(* Program constants.                                                      *)
(***************************************************************************)
DutyCycleGapMs == 99000
MaxPayload == 242
JoinTimeoutMs == 5000
MinJoinAcceptLen == 17
\* lorawan_get_timestamp: values of the 32-bit microsecond count divided by 1000
TimerWrapMs == 4294968
Uint8 == 256
Uint16 == 65536

Tasks == {"uplink", "emergency"}

States == {"IDLE", "JOINING", "JOINED", "SENDING", "SLEEP"}

Results == {"LORAWAN_SUCCESS", "LORAWAN_ERROR_INIT", "LORAWAN_ERROR_JOIN",
            "LORAWAN_ERROR_SEND", "LORAWAN_ERROR_BUSY", "LORAWAN_ERROR_NO_NETWORK"}

(***************************************************************************)
(* The instants at which the millisecond timestamp is observed: around     *)
(* each multiple of the duty-cycle gap, the ends of the join window and of *)
(* the gap.                                                                *)
(***************************************************************************)
Offsets == {0, 4999, 5000, 98999}
TimePoints == {k * DutyCycleGapMs + o : k \in 0..MaxGaps, o \in Offsets}

Lengths == {0, 242, 243, 255}
NormalPorts == {1}
RxLens == {16, 17, 33}
DevAddrs == {637607722}
Readings == {<<-80, 7>>, <<-110, -5>>}

(***************************************************************************)
(* Credentials and session keys.                                           *)
(***************************************************************************)
RECURSIVE XorBits(_, _, _)
XorBits(a, b, n) ==
    IF n = 0 THEN 0
    ELSE (((a % 2) + (b % 2)) % 2) + 2 * XorBits(a \div 2, b \div 2, n - 1)

Xor8(a, b) == XorBits(a % Uint8, b % Uint8, 8)

default_credentials ==
    [dev_eui |-> <<112, 179, 213, 126, 208, 6, 18, 52>>,
     app_eui |-> <<112, 179, 213, 126, 208, 6, 0, 1>>,
     app_key |-> <<43, 126, 21, 22, 40, 174, 210, 166,
                   171, 247, 21, 136, 9, 207, 79, 60>>]

ZeroKey == [i \in 1..16 |-> 0]

\* lorawan_generate_keys: index i of the C arrays is i + 1 here
lorawan_generate_keys ==
    [nwk_skey |-> [i \in 1..16 |-> Xor8(default_credentials.app_key[i], (i - 1) + 1)],
     app_skey |-> [i \in 1..16 |-> Xor8(default_credentials.app_key[i], (i - 1) + 2)]]

ZeroSession ==
    [dev_addr |-> 0, nwk_skey |-> ZeroKey, app_skey |-> ZeroKey,
     fcnt_up |-> 0, fcnt_down |-> 0, joined |-> FALSE]

NoFrame == [len |-> 0, dev_addr |-> 0]
NoLoc == [length |-> 0, port |-> 0, current_time |-> 0, timeout |-> 0,
          frame_fcnt |-> 0, tmp_fcnt |-> 0]
NoSleep == [set |-> FALSE, sess |-> ZeroSession, air |-> 0]
NoCall == [op |-> "none", length |-> 0, port |-> 0, st0 |-> "IDLE",
           sess0 |-> ZeroSession, since |-> "never", wraps |-> 0, rx_short |-> FALSE,
           air0 |-> 0]

(***************************************************************************)
(* Decisions of lorawan_send.                                              *)
(***************************************************************************)
\* variant of SendPrecheck: the state decides first and a wrong state is busy
SendPrecheck_StateFirst(joined, state, length) ==
    IF state # "JOINED" THEN "LORAWAN_ERROR_BUSY"
    ELSE IF ~joined THEN "LORAWAN_ERROR_NO_NETWORK"
    ELSE IF length > MaxPayload THEN "LORAWAN_ERROR_SEND"
    ELSE "pass"

\* variant of SendPrecheck: the size limit is off by one
SendPrecheck_OffByOne(joined, state, length) ==
    IF ~joined \/ state # "JOINED" THEN "LORAWAN_ERROR_NO_NETWORK"
    ELSE IF length >= MaxPayload THEN "LORAWAN_ERROR_SEND"
    ELSE "pass"

\* lines 129-135: "pass" when the call goes on to the duty-cycle check
SendPrecheck(joined, state, length) ==
    IF ~joined \/ state # "JOINED" THEN "LORAWAN_ERROR_NO_NETWORK"
    ELSE IF length > MaxPayload THEN "LORAWAN_ERROR_SEND"
    ELSE "pass"

\* a uint32_t value as <<high half-word, low half-word>>
Split32(n) == <<(n \div Uint16) % Uint16, n % Uint16>>

\* a - b in uint32_t arithmetic (wraps below zero), as half-words
Sub32(a, b) == Split32(a - b)

Less32(x, y) == x[1] < y[1] \/ (x[1] = y[1] /\ x[2] < y[2])

\* variant of DutyCycleBusy: the comparison is <= 99000
DutyCycleBusy_Inclusive(current_time, last) ==
    ~Less32(Split32(DutyCycleGapMs), Sub32(current_time, last))

\* line 139: current_time - last_tx_timestamp < 99000 in uint32_t arithmetic
DutyCycleBusy(current_time, last) ==
    Less32(Sub32(current_time, last), Split32(DutyCycleGapMs))

\* variant of NextFcnt: the counter advances by two
NextFcnt_Skip(f) == (f + 2) % Uint16

\* variant of NextFcnt: the counter is stored back unchanged
NextFcnt_Keep(f) == f % Uint16

\* line 186: session.fcnt_up++ on a uint16_t, from the value loaded
NextFcnt(f) == (f + 1) % Uint16

\* variant of JoinRefused: a sleeping engine accepts lorawan_join
JoinRefused_SleepAllowed(state) == state \notin {"IDLE", "SLEEP"}

\* variant of JoinRefused: only a join in progress refuses lorawan_join
JoinRefused_OnlyJoining(state) == state = "JOINING"

\* line 95: lorawan_join is refused outside Idle
JoinRefused(state) == state # "IDLE"

\* line 364: a received frame is taken as a join accept
JoinAcceptable(rx_length) == ~(rx_length < MinJoinAcceptLen)

\* variant of lorawan_process_join_accept: the address is taken before the length test
lorawan_process_join_accept_EarlyWrite(sess, rx) ==
    IF ~JoinAcceptable(rx.len) THEN [sess EXCEPT !.dev_addr = rx.dev_addr]
    ELSE [sess EXCEPT !.dev_addr = rx.dev_addr,
                      !.nwk_skey = lorawan_generate_keys.nwk_skey,
                      !.app_skey = lorawan_generate_keys.app_skey,
                      !.fcnt_up = 0, !.fcnt_down = 0]

\* lines 360-387: the session after a received frame has been processed
lorawan_process_join_accept(sess, rx) ==
    IF ~JoinAcceptable(rx.len) THEN sess
    ELSE [sess EXCEPT !.dev_addr = rx.dev_addr,
                      !.nwk_skey = lorawan_generate_keys.nwk_skey,
                      !.app_skey = lorawan_generate_keys.app_skey,
                      !.fcnt_up = 0, !.fcnt_down = 0]

\* variant of WakeState: waking always gives Joined
WakeState_AlwaysJoined(joined) == "JOINED"

\* variant of WakeState: waking always gives Idle
WakeState_AlwaysIdle(joined) == "IDLE"

\* lines 253-257
WakeState(joined) == IF joined THEN "JOINED" ELSE "IDLE"

\* lines 198-200
lorawan_is_ready == session.joined /\ lorawan_state = "JOINED"

(***************************************************************************)
(* Bookkeeping of calls.                                                   *)
(***************************************************************************)
\* real time since the last successful lorawan_send was issued, against the gap
Since ==
    IF h_last_ok < 0 THEN "never"
    ELSE IF now + h_wraps * TimerWrapMs - h_last_ok < DutyCycleGapMs
         THEN "within" ELSE "elapsed"

\* a call begins; h_sleep lasts from lorawan_sleep to the lorawan_wakeup that
\* follows it with no other call between
Begin(t, op, length, port) ==
    /\ call' = [call EXCEPT ![t] =
                  [op |-> op, length |-> length, port |-> port,
                   st0 |-> lorawan_state, sess0 |-> session, since |-> Since,
                   wraps |-> 0, rx_short |-> FALSE, air0 |-> Len(air)]]
    /\ h_sleep' = IF op = "sleep"
                  THEN [set |-> TRUE, sess |-> session, air |-> Len(air)]
                  ELSE IF op = "wakeup" THEN h_sleep ELSE NoSleep

Return(t, r) ==
    /\ pc' = [pc EXCEPT ![t] = "ret"]
    /\ ret' = [ret EXCEPT ![t] = r]
    /\ loc' = [loc EXCEPT ![t] = NoLoc]

\* the caller takes the result and goes on
Resume(t) ==
    /\ pc[t] = "ret"
    /\ pc' = [pc EXCEPT ![t] = "idle"]
    /\ ret' = [ret EXCEPT ![t] = "none"]
    /\ call' = [call EXCEPT ![t] = NoCall]
    /\ h_sleep' = IF call[t].op = "wakeup" THEN NoSleep ELSE h_sleep
    /\ UNCHANGED <<engine, now, radio, air, loc, h_last_ok, h_wraps, h_reset, h_sent>>

Goto(t, l) ==
    /\ pc' = [pc EXCEPT ![t] = l]
    /\ ret' = [ret EXCEPT ![t] = "none"]

InFlight == Cardinality({t \in Tasks : pc[t] \in {"send_gap", "send_build", "send_tx"}})

\* room in the transmission log for one more frame of a call that starts now
AirRoom == Len(air) + InFlight < MaxAir

(***************************************************************************)
(* lorawan_init                                                            *)
(***************************************************************************)
\* sx1262_init() != SX1262_OK : nothing but the credentials has been written
lorawan_init_fail(t) ==
    /\ pc[t] = "idle"
    /\ Begin(t, "init", 0, 0)
    /\ Return(t, "LORAWAN_ERROR_INIT")
    /\ UNCHANGED <<engine, now, radio, air, h_last_ok, h_wraps, h_reset, h_sent>>

lorawan_init_ok(t) ==
    /\ pc[t] = "idle"
    /\ Begin(t, "init", 0, 0)
    /\ session' = ZeroSession
    /\ lorawan_state' = "IDLE"
    /\ radio' = [mode |-> "standby", rx |-> NoFrame]
    /\ h_sent' = 0
    /\ h_reset' = FALSE
    /\ Return(t, "LORAWAN_SUCCESS")
    /\ UNCHANGED <<last_tx_timestamp, last_rssi, last_snr, now, air, h_last_ok, h_wraps>>

(***************************************************************************)
(* lorawan_join                                                            *)
(***************************************************************************)
\* line 95, then lorawan_send_join_request up to sx1262_send
lorawan_join_entry(t) ==
    /\ pc[t] = "idle"
    /\ Begin(t, "join", 0, 0)
    /\ IF JoinRefused(lorawan_state)
       THEN /\ Return(t, "LORAWAN_ERROR_BUSY")
            /\ UNCHANGED <<radio, air>>
       ELSE /\ Len(air) < MaxAir
            /\ air' = Append(air, [kind |-> "join", fcnt |-> 0, port |-> 0])
            /\ radio' = [radio EXCEPT !.mode = "tx"]
            /\ Goto(t, "join_tx")
            /\ loc' = loc
    /\ UNCHANGED <<engine, now, h_last_ok, h_wraps, h_reset, h_sent>>

\* lines 350-355 and 105-108: transmission complete, receive mode, window opens
lorawan_join_listen(t) ==
    /\ pc[t] = "join_tx"
    /\ radio.mode # "tx"
    /\ radio' = [mode |-> "rx", rx |-> NoFrame]
    /\ lorawan_state' = "JOINING"
    /\ loc' = [loc EXCEPT ![t].timeout = now + JoinTimeoutMs]
    /\ Goto(t, "join_poll")
    /\ UNCHANGED <<session, last_tx_timestamp, last_rssi, last_snr, now, air,
                   call, h_last_ok, h_wraps, h_reset, h_sent,
                   h_sleep>>

\* lines 109-117 with lorawan_process_join_accept: a frame is waiting
lorawan_join_poll(t) ==
    /\ pc[t] = "join_poll"
    /\ now < loc[t].timeout
    /\ radio.rx.len > 0
    /\ radio' = [radio EXCEPT !.rx = NoFrame]
    /\ IF JoinAcceptable(radio.rx.len)
       THEN /\ session' = [lorawan_process_join_accept(session, radio.rx)
                               EXCEPT !.joined = TRUE]
            /\ lorawan_state' = "JOINED"
            /\ h_sent' = 0
            /\ Return(t, "LORAWAN_SUCCESS")
            /\ call' = call
       ELSE /\ session' = lorawan_process_join_accept(session, radio.rx)
            /\ call' = [call EXCEPT ![t].rx_short = TRUE]
            /\ UNCHANGED <<lorawan_state, pc, loc, ret, h_sent>>
    /\ UNCHANGED <<last_tx_timestamp, last_rssi, last_snr, now, air, h_last_ok, h_wraps, h_reset,
                   h_sleep>>

\* lines 109 and 121-122: the window has passed
lorawan_join_timeout(t) ==
    /\ pc[t] = "join_poll"
    /\ ~(now < loc[t].timeout)
    /\ lorawan_state' = "IDLE"
    /\ Return(t, "LORAWAN_ERROR_JOIN")
    /\ UNCHANGED <<session, last_tx_timestamp, last_rssi, last_snr, now, radio,
                   air, call, h_last_ok, h_wraps, h_reset, h_sent,
                   h_sleep>>

(***************************************************************************)
(* lorawan_send                                                            *)
(***************************************************************************)
\* lines 129-135
lorawan_send_check(t, length, port) ==
    /\ pc[t] = "idle"
    /\ AirRoom
    /\ Begin(t, "send", length, port)
    /\ LET r == SendPrecheck(session.joined, lorawan_state, length) IN
       IF r = "pass"
       THEN /\ Goto(t, "send_gap")
            /\ loc' = [loc EXCEPT ![t] = [NoLoc EXCEPT !.length = length, !.port = port]]
       ELSE Return(t, r)
    /\ UNCHANGED <<engine, now, radio, air, h_last_ok, h_wraps, h_reset, h_sent>>

\* variant of lorawan_send_gap: the time is recorded before the gap is tested
lorawan_send_gap_Stamp(t) ==
    /\ pc[t] = "send_gap"
    /\ call' = [call EXCEPT ![t].since = Since, ![t].wraps = 0]
    /\ last_tx_timestamp' = now
    /\ IF DutyCycleBusy(now, last_tx_timestamp)
       THEN Return(t, "LORAWAN_ERROR_BUSY")
       ELSE /\ loc' = [loc EXCEPT ![t].current_time = now]
            /\ Goto(t, "send_build")
    /\ UNCHANGED <<lorawan_state, session, last_rssi, last_snr, now, radio, air,
                   h_last_ok, h_wraps, h_reset, h_sent, h_sleep>>

\* lines 138-141
lorawan_send_gap(t) ==
    /\ pc[t] = "send_gap"
    /\ call' = [call EXCEPT ![t].since = Since, ![t].wraps = 0]
    /\ IF DutyCycleBusy(now, last_tx_timestamp)
       THEN Return(t, "LORAWAN_ERROR_BUSY")
       ELSE /\ loc' = [loc EXCEPT ![t].current_time = now]
            /\ Goto(t, "send_build")
    /\ UNCHANGED <<engine, now, radio, air, h_last_ok, h_wraps, h_reset, h_sent,
                   h_sleep>>

\* lines 144-174: the frame takes the counter value read now
lorawan_send_build(t) ==
    /\ pc[t] = "send_build"
    /\ loc' = [loc EXCEPT ![t].frame_fcnt = session.fcnt_up]
    /\ Goto(t, "send_tx")
    /\ UNCHANGED <<engine, now, radio, air, call, h_last_ok, h_wraps, h_reset, h_sent,
                   h_sleep>>

\* lines 177-178
lorawan_send_tx(t) ==
    /\ pc[t] = "send_tx"
    /\ lorawan_state' = "SENDING"
    /\ air' = Append(air, [kind |-> "data", fcnt |-> loc[t].frame_fcnt,
                           port |-> loc[t].port])
    /\ radio' = [radio EXCEPT !.mode = "tx"]
    /\ Goto(t, "send_wait")
    /\ UNCHANGED <<session, last_tx_timestamp, last_rssi, last_snr, now, loc,
                   call, h_last_ok, h_wraps, h_reset, h_sent,
                   h_sleep>>

\* lines 181-186: transmission complete, the counter is loaded for the increment
lorawan_send_wait(t) ==
    /\ pc[t] = "send_wait"
    /\ radio.mode # "tx"
    /\ loc' = [loc EXCEPT ![t].tmp_fcnt = session.fcnt_up]
    /\ Goto(t, "send_upd")
    /\ UNCHANGED <<engine, now, radio, air, call, h_last_ok, h_wraps, h_reset, h_sent,
                   h_sleep>>

\* lines 186-192: the counter is stored, then the bookkeeping
lorawan_send_update(t) ==
    /\ pc[t] = "send_upd"
    /\ session' = [session EXCEPT !.fcnt_up = NextFcnt(loc[t].tmp_fcnt)]
    /\ last_tx_timestamp' = loc[t].current_time
    /\ \E q \in Readings : last_rssi' = q[1] /\ last_snr' = q[2]
    /\ lorawan_state' = "JOINED"
    /\ h_last_ok' = loc[t].current_time
    /\ h_wraps' = call[t].wraps
    /\ h_reset' = h_reset
    /\ h_sent' = h_sent + 1
    /\ Return(t, "LORAWAN_SUCCESS")
    /\ UNCHANGED <<now, radio, air, call,
                   h_sleep>>

(***************************************************************************)
(* lorawan_sleep, lorawan_wakeup, lorawan_reset                            *)
(***************************************************************************)
lorawan_sleep(t) ==
    /\ pc[t] = "idle"
    /\ Begin(t, "sleep", 0, 0)
    /\ radio' = [radio EXCEPT !.mode = "sleep"]
    /\ lorawan_state' = "SLEEP"
    /\ Return(t, "LORAWAN_SUCCESS")
    /\ UNCHANGED <<session, last_tx_timestamp, last_rssi, last_snr, now, air, h_last_ok, h_wraps, h_reset, h_sent>>

lorawan_wakeup(t) ==
    /\ pc[t] = "idle"
    /\ Begin(t, "wakeup", 0, 0)
    /\ radio' = [radio EXCEPT !.mode = "standby"]
    /\ lorawan_state' = WakeState(session.joined)
    /\ Return(t, "LORAWAN_SUCCESS")
    /\ UNCHANGED <<session, last_tx_timestamp, last_rssi, last_snr, now, air, h_last_ok, h_wraps, h_reset, h_sent>>

\* variant of lorawan_reset: the time of the last transmission is cleared too
lorawan_reset_Forget(t) ==
    /\ pc[t] = "idle"
    /\ Begin(t, "reset", 0, 0)
    /\ radio' = [mode |-> "standby", rx |-> NoFrame]
    /\ session' = ZeroSession
    /\ lorawan_state' = "IDLE"
    /\ last_tx_timestamp' = 0
    /\ h_sent' = 0
    /\ h_reset' = TRUE
    /\ Return(t, "LORAWAN_SUCCESS")
    /\ UNCHANGED <<last_rssi, last_snr, now, air, h_last_ok, h_wraps>>

lorawan_reset(t) ==
    /\ pc[t] = "idle"
    /\ Begin(t, "reset", 0, 0)
    /\ radio' = [mode |-> "standby", rx |-> NoFrame]
    /\ session' = ZeroSession
    /\ lorawan_state' = "IDLE"
    /\ h_sent' = 0
    /\ h_reset' = TRUE
    /\ Return(t, "LORAWAN_SUCCESS")
    /\ UNCHANGED <<last_tx_timestamp, last_rssi, last_snr, now, air, h_last_ok, h_wraps>>

(***************************************************************************)
(* The timer and the radio.                                                *)
(***************************************************************************)
\* lorawan_get_timestamp: the free-running timer moves on
Advance ==
    /\ \E tp \in TimePoints : tp > now /\ now' = tp
    /\ UNCHANGED <<engine, radio, air, pc, loc, ret, call, h_last_ok, h_wraps, h_reset, h_sent, h_sleep,
                 phase, variant, periph>>

\* sx1262_is_tx_done becomes true
RadioTxDone ==
    /\ radio.mode = "tx"
    /\ radio' = [radio EXCEPT !.mode = "standby"]
    /\ UNCHANGED <<engine, now, air, pc, loc, ret, call, h_last_ok, h_wraps, h_reset, h_sent, h_sleep,
                 phase, variant, periph>>

\* sx1262_is_rx_done becomes true: a frame arrives in continuous receive
RadioRx ==
    /\ radio.mode = "rx"
    /\ radio.rx.len = 0
    /\ \E n \in RxLens, a \in DevAddrs :
          radio' = [radio EXCEPT !.rx = [len |-> n, dev_addr |-> a]]
    /\ UNCHANGED <<engine, now, air, pc, loc, ret, call, h_last_ok, h_wraps, h_reset, h_sent, h_sleep,
                 phase, variant, periph>>

(***************************************************************************)
(* main_electrical.c: the acquisition interrupt and vElectricalTask.       *)
(***************************************************************************)
Samples == {0, 1}

ReadPcs == {"read_first", "read_last"}

\* variant of AdcAfterFull: the ADC goes on converting when the buffer is full
AdcAfterFull_Running == TRUE

\* line 378: ADC_Cmd(ADC1, DISABLE) once the buffer is full
AdcAfterFull == FALSE

\* system_init enables the ADC and its trigger before the scheduler starts
AdcBoot ==
    /\ adc_buffer = [i \in 0..(AdcBufferSlots - 1) |-> 0]
    /\ adc_buffer_index = 0
    /\ adc_buffer_ready = FALSE
    /\ adc_on = TRUE
    /\ elec_pc = "wait"
    /\ h_window = FALSE

\* lines 354-383: one end-of-conversion interrupt
ADC1_IRQHandler ==
    /\ adc_on
    /\ \E v \in Samples : adc_buffer' = [adc_buffer EXCEPT ![adc_buffer_index] = v]
    /\ IF adc_buffer_index + 1 >= AdcBufferSlots
       THEN /\ adc_buffer_index' = 0
            /\ adc_buffer_ready' = TRUE
            /\ adc_on' = AdcAfterFull
            /\ h_window' = TRUE
       ELSE /\ adc_buffer_index' = adc_buffer_index + 1
            /\ UNCHANGED <<adc_buffer_ready, adc_on, h_window>>
    /\ UNCHANGED <<elec_pc, notadc>>

\* lines 161-163: the task polls the ready flag
Elec_Wait ==
    /\ elec_pc = "wait"
    /\ adc_buffer_ready
    /\ elec_pc' = "take"
    /\ UNCHANGED <<adc_buffer, adc_buffer_index, adc_buffer_ready, adc_on, h_window, notadc>>

\* lines 166-169: xADCMutex has no other taker, the take succeeds
Elec_Take ==
    /\ elec_pc = "take"
    /\ adc_buffer_ready' = FALSE
    /\ elec_pc' = "read_first"
    /\ UNCHANGED <<adc_buffer, adc_buffer_index, adc_on, h_window, notadc>>

\* lines 172-177: the first passes over the two buffers
Elec_ReadFirst ==
    /\ elec_pc = "read_first"
    /\ elec_pc' = "read_last"
    /\ UNCHANGED <<adc_buffer, adc_buffer_index, adc_buffer_ready, adc_on, h_window, notadc>>

\* lines 180-199: the last passes over the buffers, then the mutex is given
Elec_ReadLast ==
    /\ elec_pc = "read_last"
    /\ elec_pc' = "post"
    /\ UNCHANGED <<adc_buffer, adc_buffer_index, adc_buffer_ready, adc_on, h_window, notadc>>

\* lines 201-244: safety checks and the two queue sends
Elec_Post ==
    /\ elec_pc = "post"
    /\ elec_pc' = "reset"
    /\ UNCHANGED <<adc_buffer, adc_buffer_index, adc_buffer_ready, adc_on, h_window, notadc>>

\* line 247
Elec_Reset ==
    /\ elec_pc = "reset"
    /\ adc_buffer_index' = 0
    /\ h_window' = FALSE
    /\ elec_pc' = "rearm"
    /\ UNCHANGED <<adc_buffer, adc_buffer_ready, adc_on, notadc>>

\* lines 248-252: acquisition is started again, then the task delays
Elec_Rearm ==
    /\ elec_pc = "rearm"
    /\ adc_on' = TRUE
    /\ elec_pc' = "wait"
    /\ UNCHANGED <<adc_buffer, adc_buffer_index, adc_buffer_ready, h_window, notadc>>

(***************************************************************************)
(* The telemetry queue: the sensing / analysis task posts measurements, the *)
(* uplink task takes them and calls lorawan_send (main.c, main_electrical.c, *)
(* main_water.c, main_lorawan_only.c).                                     *)
(***************************************************************************)
Firmwares == {"main", "electrical", "water", "lorawan_only"}

\* xQueueCreate of each main()
QueueLength(f) ==
    IF f = "lorawan_only" THEN 5 ELSE IF f = "water" THEN 8 ELSE 10

\* block time of the producer's xQueueSend, in ms
SendBlockMs(f) ==
    IF f = "main" THEN 0 ELSE IF f = "electrical" THEN 10 ELSE 100

\* the producer tests the value xQueueSend returns
ProducerChecksResult(f) == f = "lorawan_only"

\* variant of SendAttempts: the loop test is retry_count <= 3
SendAttempts_Four(f) == IF f = "lorawan_only" THEN 4 ELSE 1

\* lines 125-126 of main_lorawan_only.c: attempts per item; one elsewhere
SendAttempts(f) == IF f = "lorawan_only" THEN 3 ELSE 1

\* the uplink task has a branch for a failed lorawan_send
UplinkHandlesFailure(f) == f = "lorawan_only"

\* results lorawan_send gives these callers (their payloads are short)
SendResults == {"LORAWAN_SUCCESS", "LORAWAN_ERROR_BUSY", "LORAWAN_ERROR_NO_NETWORK"}

\* device_config of main_lorawan_only.c, lines 43-50
DefaultConfig == [sampling_rate |-> 300000, lora_sf |-> 10, tx_power |-> 14]

ConfigFields == {"sampling_rate", "lora_sf", "tx_power"}

\* task t stores into the fields fs
Note(t, fs) ==
    [f \in ConfigFields |-> IF f \in fs THEN h_writers[f] \cup {t} ELSE h_writers[f]]

ConfigBoot ==
    /\ device_config = DefaultConfig
    /\ h_writers = [f \in ConfigFields |-> {}]

PipeBoot(f) ==
    /\ fw = f
    /\ mbox = 0
    /\ prod_pc = "sample"
    /\ cons_pc = "receive"
    /\ retry_count = 0
    /\ h_silent = FALSE
    /\ h_flushed = FALSE
    /\ h_unreacted = FALSE

\* variant of ProducerFailed: the measurement is queued again after the reset
ProducerFailed_Resend ==
    /\ prod_pc' = "sample"
    /\ IF ProducerChecksResult(fw)
       THEN mbox' = 1 /\ h_flushed' = TRUE /\ UNCHANGED h_silent
       ELSE h_silent' = TRUE /\ UNCHANGED <<mbox, h_flushed>>

\* xQueueSend returned errQUEUE_FULL: the measurement is not queued
ProducerFailed ==
    /\ prod_pc' = "sample"
    /\ IF ProducerChecksResult(fw)
       THEN mbox' = 0 /\ h_flushed' = TRUE /\ UNCHANGED h_silent
       ELSE h_silent' = TRUE /\ UNCHANGED <<mbox, h_flushed>>

\* the sensing task takes a measurement and calls xQueueSend
Prod_Send ==
    /\ prod_pc = "sample"
    /\ IF mbox < QueueLength(fw)
       THEN mbox' = mbox + 1 /\ h_flushed' = FALSE /\ UNCHANGED <<prod_pc, h_silent>>
       ELSE IF SendBlockMs(fw) = 0
            THEN ProducerFailed
            ELSE prod_pc' = "blocked" /\ h_flushed' = FALSE /\ UNCHANGED <<mbox, h_silent>>
    /\ \E high_pressure \in BOOLEAN :
          IF fw = "lorawan_only" /\ high_pressure
          THEN /\ device_config' = [device_config EXCEPT !.sampling_rate = 60000]
               /\ h_writers' = Note("sensor", {"sampling_rate"})
          ELSE UNCHANGED <<device_config, h_writers>>
    /\ UNCHANGED <<fw, cons_pc, retry_count, h_unreacted, notpipe>>

\* room appears before the block time is over
Prod_Unblock ==
    /\ prod_pc = "blocked"
    /\ mbox < QueueLength(fw)
    /\ mbox' = mbox + 1
    /\ prod_pc' = "sample"
    /\ UNCHANGED <<fw, cons_pc, retry_count, h_silent, h_flushed, h_unreacted, cfgv, notpipe>>

\* the queue stayed full for the whole block time
Prod_Timeout ==
    /\ prod_pc = "blocked"
    /\ mbox = QueueLength(fw)
    /\ ProducerFailed
    /\ UNCHANGED <<fw, cons_pc, retry_count, h_unreacted, cfgv, notpipe>>

\* xQueueReceive(..., portMAX_DELAY)
Cons_Receive ==
    /\ cons_pc = "receive"
    /\ mbox > 0
    /\ mbox' = mbox - 1
    /\ retry_count' = 0
    /\ cons_pc' = "send"
    /\ UNCHANGED <<fw, prod_pc, h_silent, h_flushed, h_unreacted, cfgv, notpipe>>

\* one lorawan_send for the item in hand, and what the task does with its result
Cons_Send ==
    /\ cons_pc = "send"
    /\ \E r \in SendResults :
          IF r = "LORAWAN_SUCCESS"
          THEN /\ cons_pc' = "rest"
               /\ UNCHANGED <<retry_count, device_config, h_writers, h_unreacted>>
          ELSE IF UplinkHandlesFailure(fw)
          THEN /\ retry_count' = retry_count + 1
               /\ IF retry_count + 1 < SendAttempts(fw)
                  THEN UNCHANGED <<cons_pc, device_config, h_writers>>
                  ELSE /\ cons_pc' = "rest"
                       /\ device_config' = [device_config EXCEPT !.sampling_rate = 1800000]
                       /\ h_writers' = Note("lorawan", {"sampling_rate"})
               /\ UNCHANGED h_unreacted
          ELSE /\ cons_pc' = "rest"
               /\ h_unreacted' = TRUE
               /\ UNCHANGED <<retry_count, device_config, h_writers>>
    /\ UNCHANGED <<fw, mbox, prod_pc, h_silent, h_flushed, notpipe>>

\* the delay (or the radio sleep) at the end of the loop
Cons_Rest ==
    /\ cons_pc = "rest"
    /\ cons_pc' = "receive"
    /\ UNCHANGED <<fw, mbox, prod_pc, retry_count, h_silent, h_flushed, h_unreacted, cfgv, notpipe>>

(***************************************************************************)
(* main_electrical.c: the safety checks of vElectricalTask and vSafetyTask. *)
(***************************************************************************)
SAFETY_OVERVOLTAGE == 1
SAFETY_UNDERVOLTAGE == 2
SAFETY_OVERCURRENT == 4
SAFETY_OVERPOWER == 8
SAFETY_LOW_PF == 16
SAFETY_HIGH_THD == 32
SAFETY_FREQ_DEVIATION == 64
SAFETY_PHASE_IMBALANCE == 128

SafetyQueueLength == 5

RECURSIVE AndBits(_, _, _)
AndBits(a, b, n) ==
    IF n = 0 THEN 0
    ELSE ((a % 2) * (b % 2)) + 2 * AndBits(a \div 2, b \div 2, n - 1)

\* a & b on uint8_t
And8(a, b) == AndBits(a % Uint8, b % Uint8, 8)

\* measurements around the limits of electrical_config: volts and amperes in
\* tenths, power factor in hundredths, distortion and hertz in tenths
VoltageRms == {2124, 2125, 2750, 2751}
CurrentRms == {900, 901}
PowerFactor == {84, 85}
Thd == {50, 51}
Frequency == {479, 480, 520, 521}

\* variant of SafetyFlags: an apparent power above 247.5 kVA sets the over-power flag
SafetyFlags_OverPower(v, c, pf, thd_v, thd_c, f) ==
    (IF v > 2750 THEN SAFETY_OVERVOLTAGE ELSE 0)
    + (IF v < 2125 THEN SAFETY_UNDERVOLTAGE ELSE 0)
    + (IF c > 900 THEN SAFETY_OVERCURRENT ELSE 0)
    + (IF v * c > 2750 * 900 - 1 THEN SAFETY_OVERPOWER ELSE 0)
    + (IF pf < 85 THEN SAFETY_LOW_PF ELSE 0)
    + (IF thd_v > 50 \/ thd_c > 50 THEN SAFETY_HIGH_THD ELSE 0)
    + (IF f < 480 \/ f > 520 THEN SAFETY_FREQ_DEVIATION ELSE 0)

\* lines 202-231: the mask of one measurement
SafetyFlags(v, c, pf, thd_v, thd_c, f) ==
    (IF v > 2750 THEN SAFETY_OVERVOLTAGE ELSE 0)
    + (IF v < 2125 THEN SAFETY_UNDERVOLTAGE ELSE 0)
    + (IF c > 900 THEN SAFETY_OVERCURRENT ELSE 0)
    + (IF pf < 85 THEN SAFETY_LOW_PF ELSE 0)
    + (IF thd_v > 50 \/ thd_c > 50 THEN SAFETY_HIGH_THD ELSE 0)
    + (IF f < 480 \/ f > 520 THEN SAFETY_FREQ_DEVIATION ELSE 0)

\* variant of CriticalMask: under-voltage counts as critical too
CriticalMask_WithUnder ==
    SAFETY_OVERVOLTAGE + SAFETY_UNDERVOLTAGE + SAFETY_OVERCURRENT + SAFETY_OVERPOWER

\* line 113
CriticalMask == SAFETY_OVERVOLTAGE + SAFETY_OVERCURRENT + SAFETY_OVERPOWER

SafetyBoot ==
    /\ alert_q = <<>>
    /\ safety_alert = 0
    /\ safety_pc = "receive"
    /\ h_posted = 0
    /\ h_emergency = FALSE

\* lines 201-241: the checks of one measurement and the post of its mask
Elec_SafetyCheck ==
    /\ h_posted < MaxAlerts
    /\ \E v \in VoltageRms, c \in CurrentRms, pf \in PowerFactor,
          thd_v \in Thd, thd_c \in Thd, f \in Frequency :
          LET safety_flags == SafetyFlags(v, c, pf, thd_v, thd_c, f) IN
          IF safety_flags # 0
          THEN /\ alert_q' = IF Len(alert_q) < SafetyQueueLength
                             THEN Append(alert_q, safety_flags) ELSE alert_q
               /\ h_posted' = h_posted + 1
          ELSE UNCHANGED <<alert_q, h_posted>>
    /\ UNCHANGED <<safety_alert, safety_pc, h_emergency, notsafe>>

\* lines 110-113: a mask is received and tested
Safety_Receive ==
    /\ safety_pc = "receive"
    /\ alert_q # <<>>
    /\ safety_alert' = Head(alert_q)
    /\ alert_q' = Tail(alert_q)
    /\ safety_pc' = IF And8(Head(alert_q), CriticalMask) # 0 THEN "emergency" ELSE "delay"
    /\ h_emergency' = FALSE
    /\ UNCHANGED <<h_posted, notsafe>>

\* lines 114-136: the emergency payload is built and passed to lorawan_send
Safety_Emergency ==
    /\ safety_pc = "emergency"
    /\ safety_pc' = "delay"
    /\ h_emergency' = TRUE
    /\ UNCHANGED <<alert_q, safety_alert, h_posted, notsafe>>

\* line 144
Safety_Delay ==
    /\ safety_pc = "delay"
    /\ safety_pc' = "receive"
    /\ UNCHANGED <<alert_q, safety_alert, h_posted, h_emergency, notsafe>>

(***************************************************************************)
(* main_water.c: vLeakDetectionTask.  Pressures are in units of 0.05 bar,   *)
(* so that the halving of line 126 is exact on the readings used.          *)
(***************************************************************************)
HistorySize == 10
MinIndexForTrend == 3

\* water_config.leak_threshold, 0.5 bar
LeakThreshold == 10

\* 10.0, 9.0 and 7.9 bar
Pressures == {200, 180, 158}

LeakBoot ==
    /\ pressure_history = [i \in 0..(HistorySize - 1) |-> 0]
    /\ pressure_index = 0
    /\ pressure_trend = 0
    /\ leak_pc = "measure"
    /\ h_readings = <<>>
    /\ h_leak = FALSE

\* line 121
TrendComputed(index) == index >= MinIndexForTrend

\* lines 122-126
Trend(history, index) ==
    LET idx1 == (index - 1 + HistorySize) % HistorySize
        idx3 == (index - 3 + HistorySize) % HistorySize
    IN  (history[idx1] - history[idx3]) \div 2

\* lines 113-128: a reading is stored and the trend computed
Leak_Measure ==
    /\ leak_pc = "measure"
    /\ Len(h_readings) < MaxCycles
    /\ \E current_pressure \in Pressures :
          LET history == [pressure_history EXCEPT ![pressure_index] = current_pressure]
              index == (pressure_index + 1) % HistorySize
          IN  /\ pressure_history' = history
              /\ pressure_index' = index
              /\ pressure_trend' = IF TrendComputed(index) THEN Trend(history, index) ELSE 0
              /\ h_readings' = Append(h_readings, current_pressure)
    /\ leak_pc' = "detect"
    /\ UNCHANGED <<h_leak, notleak>>

\* lines 132-158: the trend is compared and the alert sent
Leak_Detect ==
    /\ leak_pc = "detect"
    /\ h_leak' = (pressure_trend < -LeakThreshold)
    /\ leak_pc' = "measure"
    /\ UNCHANGED <<pressure_history, pressure_index, pressure_trend, h_readings, notleak>>

(***************************************************************************)
(* main_lorawan_only.c: vPowerTask.                                        *)
(***************************************************************************)
\* the values power_get_battery_level can return in a uint8_t
BatteryLevels == 0..(Uint8 - 1)

\* lines 247-249
CriticalBand == [sampling_rate |-> 3600000, lora_sf |-> 12, tx_power |-> 10]
\* lines 253-255
ConservativeBand == [sampling_rate |-> 1800000, lora_sf |-> 11, tx_power |-> 12]
\* lines 259-261
NormalBand == [sampling_rate |-> 300000, lora_sf |-> 10, tx_power |-> 14]

\* variant of PowerBand: level 20 is critical and level 50 conservative
PowerBand_Inclusive(b) ==
    IF b <= 20 THEN CriticalBand
    ELSE IF b <= 50 THEN ConservativeBand
    ELSE NormalBand

\* lines 245-262
PowerBand(b) ==
    IF b < 20 THEN CriticalBand
    ELSE IF b < 50 THEN ConservativeBand
    ELSE NormalBand

PowerBoot ==
    /\ battery_level = 0
    /\ power_pc = "check"

\* lines 242-262: the battery is read and the band written
Power_Check ==
    /\ power_pc = "check"
    /\ \E b \in BatteryLevels :
          /\ battery_level' = b
          /\ device_config' = PowerBand(b)
    /\ h_writers' = Note("power", ConfigFields)
    /\ power_pc' = "delay"
    /\ UNCHANGED notpower

\* line 265
Power_Delay ==
    /\ power_pc = "delay"
    /\ power_pc' = "check"
    /\ UNCHANGED <<battery_level, device_config, h_writers, notpower>>

(***************************************************************************)
(* main_electrical.c: the analysis of vElectricalTask.  Powers are in      *)
(* units of 0.01 W, the power factor in thousandths, distortion and        *)
(* frequency in tenths.                                                    *)
(***************************************************************************)
\* results of calculate_active_power and calculate_reactive_power
ActivePowers == {-500, -5, 0, 5, 8, 300, 400}
ReactivePowers == {-400, 0, 6, 130, 140, 240, 250}

\* results of calculate_thd_voltage, calculate_thd_current, calculate_frequency
ThdLevels == {30, 31, 50, 51}
FrequencyLevels == {489, 490, 494, 495, 500, 505, 506, 510, 511}

RECURSIVE SqrtBetween(_, _, _)
SqrtBetween(n, lo, hi) ==
    IF lo >= hi THEN lo
    ELSE LET mid == (lo + hi + 1) \div 2
         IN  IF mid * mid <= n THEN SqrtBetween(n, mid, hi)
             ELSE SqrtBetween(n, lo, mid - 1)

RECURSIVE SqrtAbove(_, _)
SqrtAbove(n, h) == IF h * h > n THEN h ELSE SqrtAbove(n, 2 * h)

\* sqrt, to the unit below
Sqrt(n) == SqrtBetween(n, 0, SqrtAbove(n, 1))

\* line 182
ApparentPower(p, q) == Sqrt(p * p + q * q)

\* the quotient of line 187, in thousandths, rounded towards zero
Ratio(p, s) == IF p >= 0 THEN (p * 1000) \div s ELSE -(((-p) * 1000) \div s)

\* lines 186-190
PowerFactorOf(p, s) == IF s > 10 THEN Ratio(p, s) ELSE 1000

\* variant of calculate_power_quality_grade: the sum is returned as it is
calculate_power_quality_grade_NoCap(data) ==
    (IF data.thd_voltage > 30 \/ data.thd_current > 30 THEN 1 ELSE 0)
    + (IF data.thd_voltage > 50 \/ data.thd_current > 50 THEN 1 ELSE 0)
    + (IF data.power_factor < 950 THEN 1 ELSE 0)
    + (IF data.power_factor < 850 THEN 1 ELSE 0)
    + (IF data.frequency < 495 \/ data.frequency > 505 THEN 1 ELSE 0)
    + (IF data.frequency < 490 \/ data.frequency > 510 THEN 1 ELSE 0)

\* lines 485-501
calculate_power_quality_grade(data) ==
    LET grade ==
          (IF data.thd_voltage > 30 \/ data.thd_current > 30 THEN 1 ELSE 0)
          + (IF data.thd_voltage > 50 \/ data.thd_current > 50 THEN 1 ELSE 0)
          + (IF data.power_factor < 950 THEN 1 ELSE 0)
          + (IF data.power_factor < 850 THEN 1 ELSE 0)
          + (IF data.frequency < 495 \/ data.frequency > 505 THEN 1 ELSE 0)
          + (IF data.frequency < 490 \/ data.frequency > 510 THEN 1 ELSE 0)
    IN  IF grade > 5 THEN 5 ELSE grade

NoData ==
    [power_active |-> 0, power_reactive |-> 0, power_apparent |-> 0,
     power_factor |-> 0, thd_voltage |-> 0, thd_current |-> 0,
     frequency |-> 0, quality_grade |-> 0]

AnalysisBoot ==
    /\ electrical_data = NoData
    /\ ana_pc = "distortion"

\* lines 171-177: the distortion of both channels
Elec_Distortion ==
    /\ ana_pc = "distortion"
    /\ \E tv \in ThdLevels, tc \in ThdLevels :
          electrical_data' =
              [electrical_data EXCEPT !.thd_voltage = tv, !.thd_current = tc]
    /\ ana_pc' = "power"
    /\ UNCHANGED notana

\* lines 180-190: the powers and the power factor
Elec_Power ==
    /\ ana_pc = "power"
    /\ \E p \in ActivePowers, q \in ReactivePowers :
          LET s == ApparentPower(p, q) IN
          electrical_data' =
              [electrical_data EXCEPT !.power_active = p, !.power_reactive = q,
                                      !.power_apparent = s,
                                      !.power_factor = PowerFactorOf(p, s)]
    /\ ana_pc' = "frequency"
    /\ UNCHANGED notana

\* line 193
Elec_Frequency ==
    /\ ana_pc = "frequency"
    /\ \E f \in FrequencyLevels :
          electrical_data' = [electrical_data EXCEPT !.frequency = f]
    /\ ana_pc' = "grade"
    /\ UNCHANGED notana

\* line 236
Elec_Grade ==
    /\ ana_pc = "grade"
    /\ electrical_data' =
           [electrical_data EXCEPT
               !.quality_grade = calculate_power_quality_grade(electrical_data)]
    /\ ana_pc' = "graded"
    /\ UNCHANGED notana

\* lines 243-251: the result is queued and the next cycle begins
Elec_Next ==
    /\ ana_pc = "graded"
    /\ ana_pc' = "distortion"
    /\ UNCHANGED <<electrical_data, notana>>

(***************************************************************************)
(* main_electrical.c: the payload of vLoRaWANTask.  The measurements are   *)
(* in the units of the payload: volts in tenths, amperes in hundredths,    *)
(* the power factor in hundredths, hertz and distortion in tenths.         *)
(***************************************************************************)
CrcInit == 255
CrcPoly == 49

\* the measurements taken from xElectricalDataQueue
TxData ==
    [safety_status : {0, 5}, voltage_rms : {2300, 2751}, current_rms : {1234},
     power_active : {0, 1150}, power_factor : {85, 100}, frequency : {500},
     thd_voltage : {31}, thd_current : {52}, quality_grade : {0, 5},
     timestamp : {0, 16909060}, power_reactive : {300}]

\* power_get_battery_level
TxBattery == {77}

\* what payload[23] can hold before it is written
StackBytes == {0, 165, 255}

\* lines 508-512: one shift
Crc8Shift ==
    [crc \in 0..(Uint8 - 1) |->
        IF And8(crc, 128) # 0 THEN Xor8((crc * 2) % Uint8, CrcPoly)
        ELSE (crc * 2) % Uint8]

\* line 507: the eight shifts of one byte
Crc8Byte ==
    [crc \in 0..(Uint8 - 1) |->
        Crc8Shift[Crc8Shift[Crc8Shift[Crc8Shift[
        Crc8Shift[Crc8Shift[Crc8Shift[Crc8Shift[crc]]]]]]]]]

\* lines 505-514: the bytes from position i on; crc is a uint8_t
RECURSIVE Crc8From(_, _, _, _)
Crc8From(crc, data, i, length) ==
    IF i > length \/ crc >= Uint8 THEN crc % Uint8
    ELSE Crc8From(Crc8Byte[Xor8(crc, data[i])], data, i + 1, length)

\* lines 503-516
calculate_crc8(data, length) == Crc8From(CrcInit, data, 1, length)

Hi(x) == (x \div Uint8) % Uint8
Lo(x) == x % Uint8

\* lines 284-332: the bytes before the checksum
PayloadBody(data, battery) ==
    <<1, 1, 16, data.safety_status,
      Hi(data.voltage_rms), Lo(data.voltage_rms),
      Hi(data.current_rms), Lo(data.current_rms),
      Hi(data.power_active), Lo(data.power_active),
      data.power_factor % Uint8,
      (data.frequency - 450) % Uint8,
      data.thd_voltage % Uint8,
      data.thd_current % Uint8,
      data.quality_grade,
      (data.timestamp \div 16777216) % Uint8,
      (data.timestamp \div Uint16) % Uint8,
      Hi(data.timestamp), Lo(data.timestamp),
      Hi(data.power_reactive), Lo(data.power_reactive),
      battery>>

\* line 335, payload[idx++] = calculate_crc8(payload, idx): the order of the
\* increment and of the read of idx is not fixed by the language, so the
\* checksum covers idx bytes with idx read before or after the increment
CrcLengths(i) == {i, i + 1}

NoHanded == [buf |-> <<>>, len |-> 0]

NoTxData ==
    [safety_status |-> 0, voltage_rms |-> 0, current_rms |-> 0,
     power_active |-> 0, power_factor |-> 0, frequency |-> 0,
     thd_voltage |-> 0, thd_current |-> 0, quality_grade |-> 0,
     timestamp |-> 0, power_reactive |-> 0]

PayloadBoot ==
    /\ tx_data = NoTxData
    /\ payload = <<>>
    /\ idx = 0
    /\ pay_pc = "receive"
    /\ h_handed = NoHanded

\* line 279: a measurement is taken from the queue
Uplink_Receive ==
    /\ pay_pc = "receive"
    /\ tx_data' \in TxData
    /\ payload' = <<>>
    /\ idx' = 0
    /\ pay_pc' = "build"
    /\ UNCHANGED <<h_handed, notpay>>

\* lines 282-332
Uplink_Build ==
    /\ pay_pc = "build"
    /\ \E battery \in TxBattery :
          /\ payload' = PayloadBody(tx_data, battery)
          /\ idx' = Len(PayloadBody(tx_data, battery))
    /\ pay_pc' = "crc"
    /\ UNCHANGED <<tx_data, h_handed, notpay>>

\* line 335
Uplink_Crc ==
    /\ pay_pc = "crc"
    /\ \E length \in CrcLengths(idx), old \in StackBytes :
          payload' = Append(payload, calculate_crc8(Append(payload, old), length))
    /\ idx' = idx + 1
    /\ pay_pc' = "send"
    /\ UNCHANGED <<tx_data, h_handed, notpay>>

\* line 338
Uplink_Hand ==
    /\ pay_pc = "send"
    /\ h_handed' = [buf |-> payload, len |-> idx]
    /\ pay_pc' = "receive"
    /\ UNCHANGED <<tx_data, payload, idx, notpay>>

(***************************************************************************)
(* main_lorawan_only.c: the send loop of vLoRaWANTask, lines 100-153.      *)
(***************************************************************************)
RetryDelayMs == 5000
ExtendedSleepMs == 1800000

RetryBoot ==
    /\ packet_sequence = 0
    /\ h_calls = 0
    /\ h_wait_ms = 0
    /\ h_seq0 = 0

\* lines 102-123: a packet is taken from the queue and its payload built
Lo_Receive ==
    /\ cons_pc = "receive"
    /\ packet_sequence < MaxPackets
    /\ retry_count' = 0
    /\ cons_pc' = "try"
    /\ h_calls' = 0
    /\ h_wait_ms' = 0
    /\ h_seq0' = packet_sequence
    /\ UNCHANGED <<packet_sequence, device_config, h_writers>>
    /\ UNCHANGED <<fw, mbox, prod_pc, h_silent, h_flushed, h_unreacted, notretry>>

\* lines 126-134: the loop test, lorawan_send and the success branch
Lo_Try ==
    /\ cons_pc = "try"
    /\ IF retry_count < SendAttempts(fw)
       THEN /\ h_calls' = h_calls + 1
            /\ \E r \in SendResults :
                  IF r = "LORAWAN_SUCCESS"
                  THEN /\ packet_sequence' = (packet_sequence + 1) % Uint16
                       /\ cons_pc' = "check"
                  ELSE /\ cons_pc' = "backoff"
                       /\ UNCHANGED packet_sequence
       ELSE /\ cons_pc' = "check"
            /\ UNCHANGED <<h_calls, packet_sequence>>
    /\ UNCHANGED <<retry_count, h_wait_ms, h_seq0, device_config, h_writers>>
    /\ UNCHANGED <<fw, mbox, prod_pc, h_silent, h_flushed, h_unreacted, notretry>>

\* lines 135-137: the failure branch
Lo_Backoff ==
    /\ cons_pc = "backoff"
    /\ retry_count' = retry_count + 1
    /\ h_wait_ms' = h_wait_ms + RetryDelayMs
    /\ cons_pc' = "try"
    /\ UNCHANGED <<packet_sequence, h_calls, h_seq0, device_config, h_writers>>
    /\ UNCHANGED <<fw, mbox, prod_pc, h_silent, h_flushed, h_unreacted, notretry>>

\* lines 140-143
Lo_Check ==
    /\ cons_pc = "check"
    /\ IF retry_count >= SendAttempts(fw)
       THEN /\ device_config' = [device_config EXCEPT !.sampling_rate = ExtendedSleepMs]
            /\ h_writers' = Note("lorawan", {"sampling_rate"})
       ELSE UNCHANGED <<device_config, h_writers>>
    /\ cons_pc' = "rest"
    /\ UNCHANGED <<packet_sequence, h_calls, h_wait_ms, h_seq0, retry_count>>
    /\ UNCHANGED <<fw, mbox, prod_pc, h_silent, h_flushed, h_unreacted, notretry>>

\* lines 146-153: the sleep between transmissions
Lo_Rest ==
    /\ cons_pc = "rest"
    /\ cons_pc' = "receive"
    /\ UNCHANGED <<packet_sequence, h_calls, h_wait_ms, h_seq0, retry_count, device_config, h_writers>>
    /\ UNCHANGED <<fw, mbox, prod_pc, h_silent, h_flushed, h_unreacted, notretry>>

(***************************************************************************)
(* main_lorawan_only.c: the start of vLoRaWANTask, lines 75-97.            *)
(***************************************************************************)
MaxInitRetries == 5
JoinFailedRateMs == 900000
MaxSf == 12

NoJoin == [failed |-> FALSE, rate0 |-> 0]

StartBoot ==
    /\ boot_pc = "init"
    /\ init_retries = 0
    /\ h_join = NoJoin
    /\ h_init_ok = FALSE

\* line 77: lorawan_init and the test of the loop; lines 82-90 after the loop
Lo_Init ==
    /\ boot_pc = "init"
    /\ \E ok \in BOOLEAN :
          /\ boot_pc' = IF ~ok /\ init_retries < MaxInitRetries THEN "init_delay"
                        ELSE IF init_retries >= MaxInitRetries THEN "halt"
                        ELSE "join"
          /\ h_init_ok' = (h_init_ok \/ ok)
    /\ UNCHANGED <<init_retries, h_join, device_config, h_writers, notboot>>

\* lines 78-79
Lo_InitDelay ==
    /\ boot_pc = "init_delay"
    /\ init_retries' = init_retries + 1
    /\ boot_pc' = "init"
    /\ UNCHANGED <<h_join, h_init_ok, device_config, h_writers, notboot>>

\* line 93: lorawan_join, which does not block
Lo_Join ==
    /\ boot_pc = "join"
    /\ \E ok \in BOOLEAN :
          /\ h_join' = [failed |-> ~ok, rate0 |-> device_config.sampling_rate]
          /\ boot_pc' = IF ok THEN "loop" ELSE "join_failed"
    /\ UNCHANGED <<init_retries, h_init_ok, device_config, h_writers, notboot>>

\* lines 95-96
Lo_JoinFailed ==
    /\ boot_pc = "join_failed"
    /\ device_config' = [device_config EXCEPT !.sampling_rate = JoinFailedRateMs,
                                              !.lora_sf = MaxSf]
    /\ h_writers' = Note("lorawan", {"sampling_rate", "lora_sf"})
    /\ boot_pc' = "after_join"
    /\ UNCHANGED <<init_retries, h_join, h_init_ok, notboot>>

\* line 100: the task enters its loop and waits for a packet
Lo_EnterLoop ==
    /\ boot_pc = "after_join"
    /\ boot_pc' = "loop"
    /\ UNCHANGED <<init_retries, h_join, h_init_ok, device_config, h_writers, notboot>>

(***************************************************************************)
(* The shared mutex: xADCMutex of main_electrical.c, xI2CMutex of main.c,  *)
(* main_water.c and main_lorawan_only.c.  The loop of each task that takes *)
(* it is a sequence of operations; skip is the position the task goes to   *)
(* when the operation is inside a condition that is false, 0 when there is *)
(* no condition.                                                           *)
(***************************************************************************)
MutexFirmwares == {"main", "electrical", "water", "lorawan_only"}

MutexTaskNames ==
    {"vElectricalTask", "vLeakDetectionTask", "vWaterTask", "vMaintenanceTask",
     "vSensorTask"}

MutexTasks(f) ==
    CASE f = "electrical" -> {"vElectricalTask"}
      [] f = "water" -> {"vLeakDetectionTask", "vWaterTask", "vMaintenanceTask"}
      [] f \in {"main", "lorawan_only"} -> {"vSensorTask"}
      [] OTHER -> {}

Do(o) == [op |-> o, skip |-> 0]

DoIf(o, s) == [op |-> o, skip |-> s]

\* the body of while(1) of each task
TaskLoop(t) ==
    CASE t = "vElectricalTask" ->
            <<Do("take"), Do("hold"), Do("give"),
              DoIf("mailbox", 5), Do("mailbox"), Do("delay")>>
      [] t = "vLeakDetectionTask" ->
            <<Do("take"), Do("hold"), Do("give"),
              DoIf("radio", 5), DoIf("mailbox", 6), Do("delay")>>
      [] t = "vWaterTask" ->
            <<Do("take"), Do("hold"), Do("give"),
              Do("mailbox"), Do("mailbox"), Do("delay")>>
      [] t = "vMaintenanceTask" ->
            <<DoIf("take", 4), Do("hold"), Do("give"), Do("delay")>>
      [] t = "vSensorTask" ->
            <<Do("take"), Do("hold"), Do("give"), Do("mailbox"), Do("delay")>>

\* the operation task t is at
At(t) == TaskLoop(t)[mx_pc[t]]

Created(t) == t \in MutexTasks(mx_fw) /\ mx_pc[t] > 0

MutexBoot ==
    /\ mx_fw = "none"
    /\ mutex = "none"
    /\ mx_pc = [t \in MutexTaskNames |-> 0]

\* main: xSemaphoreCreateMutex and xTaskCreate
Mx_Create ==
    /\ mx_fw = "none"
    /\ \E f \in MutexFirmwares :
          /\ mx_fw' = f
          /\ mx_pc' = [t \in MutexTaskNames |-> IF t \in MutexTasks(f) THEN 1 ELSE 0]
    /\ UNCHANGED <<mutex, notmut>>

\* xSemaphoreTake returns pdTRUE
xSemaphoreTake(t) ==
    /\ Created(t)
    /\ At(t).op = "take"
    /\ mutex = "none"
    /\ mutex' = t
    /\ mx_pc' = [mx_pc EXCEPT ![t] = @ + 1]
    /\ UNCHANGED <<mx_fw, notmut>>

\* xSemaphoreTake returns pdFALSE after its block time: the body is skipped
xSemaphoreTake_Timeout(t) ==
    /\ Created(t)
    /\ At(t).op = "take"
    /\ mutex # "none"
    /\ mx_pc' = [mx_pc EXCEPT ![t] = Len(TaskLoop(t))]
    /\ UNCHANGED <<mx_fw, mutex, notmut>>

\* the readings and computations between take and give
Mx_Hold(t) ==
    /\ Created(t)
    /\ At(t).op = "hold"
    /\ mx_pc' = [mx_pc EXCEPT ![t] = @ + 1]
    /\ UNCHANGED <<mx_fw, mutex, notmut>>

\* the task goes on without releasing the mutex
xSemaphoreGive_Missing(t) ==
    /\ Created(t)
    /\ At(t).op = "give"
    /\ mx_pc' = [mx_pc EXCEPT ![t] = @ + 1]
    /\ UNCHANGED <<mx_fw, mutex, notmut>>

xSemaphoreGive(t) ==
    /\ Created(t)
    /\ At(t).op = "give"
    /\ mutex' = "none"
    /\ mx_pc' = [mx_pc EXCEPT ![t] = @ + 1]
    /\ UNCHANGED <<mx_fw, notmut>>

\* lorawan_send, xQueueSend or xQueueReceive returns
Mx_Operate(t) ==
    /\ Created(t)
    /\ At(t).op \in {"radio", "mailbox"}
    /\ mx_pc' = [mx_pc EXCEPT ![t] = @ + 1]
    /\ UNCHANGED <<mx_fw, mutex, notmut>>

\* the condition around the operation is false
Mx_Skip(t) ==
    /\ Created(t)
    /\ At(t).skip # 0
    /\ mx_pc' = [mx_pc EXCEPT ![t] = At(t).skip]
    /\ UNCHANGED <<mx_fw, mutex, notmut>>

\* vTaskDelayUntil at the end of the loop
Mx_Delay(t) ==
    /\ Created(t)
    /\ At(t).op = "delay"
    /\ mx_pc' = [mx_pc EXCEPT ![t] = 1]
    /\ UNCHANGED <<mx_fw, mutex, notmut>>

Mutex_Take == \E t \in MutexTaskNames : xSemaphoreTake(t)
Mutex_Timeout == \E t \in MutexTaskNames : xSemaphoreTake_Timeout(t)
Mutex_Hold == \E t \in MutexTaskNames : Mx_Hold(t)
Mutex_Give == \E t \in MutexTaskNames : xSemaphoreGive(t)
Mutex_Operate == \E t \in MutexTaskNames : Mx_Operate(t)
Mutex_Skip == \E t \in MutexTaskNames : Mx_Skip(t)
Mutex_Delay == \E t \in MutexTaskNames : Mx_Delay(t)

(***************************************************************************)
(* main_electrical.c on the tick clock: vElectricalTask posts the mask of  *)
(* one measurement per measurement window, vSafetyTask (the higher         *)
(* priority) runs whenever it is not blocked.  lorawan_send is given no    *)
(* duration.                                                               *)
(***************************************************************************)
MeasurementWindowMs == 1000
AlertReceiveMs == 10
AlarmFlashes == 10
AlarmFlashMs == 100
SafetyPeriodMs == 100

\* a nominal measurement, one with over-voltage, one with a low power factor
AlarmReadings ==
    {<<2125, 900, 85, 50, 50, 480>>,
     <<2751, 900, 85, 50, 50, 480>>,
     <<2125, 900, 84, 50, 50, 480>>}

AlarmBoot ==
    /\ alarm_ms = 0
    /\ elec_due = 0
    /\ safety_due = 0
    /\ h_lost = FALSE

Critical(mask) == And8(mask, CriticalMask) # 0

\* vSafetyTask is ready to run
SafetyRuns ==
    \/ safety_pc \in {"receive", "emergency"}
    \/ safety_pc = "wait" /\ (alert_q # <<>> \/ alarm_ms = safety_due)
    \/ safety_pc \in {"alarm", "delay"} /\ alarm_ms = safety_due

\* line 110: xQueueReceive finds the queue empty and blocks
Alarm_Block ==
    /\ safety_pc = "receive"
    /\ alert_q = <<>>
    /\ safety_pc' = "wait"
    /\ safety_due' = alarm_ms + AlertReceiveMs
    /\ UNCHANGED <<alert_q, safety_alert, h_posted, h_emergency,
                   alarm_ms, elec_due, h_lost, notalarm>>

\* lines 110-113: xQueueReceive returns a mask, at once or while it blocks
Alarm_Receive ==
    /\ safety_pc \in {"receive", "wait"}
    /\ alert_q # <<>>
    /\ safety_alert' = Head(alert_q)
    /\ alert_q' = Tail(alert_q)
    /\ h_emergency' = FALSE
    /\ IF Critical(Head(alert_q))
       THEN safety_pc' = "emergency" /\ UNCHANGED safety_due
       ELSE safety_pc' = "delay" /\ safety_due' = alarm_ms + SafetyPeriodMs
    /\ UNCHANGED <<h_posted, alarm_ms, elec_due, h_lost, notalarm>>

\* line 110: the block time of xQueueReceive ends; line 144
Alarm_ReceiveTimeout ==
    /\ safety_pc = "wait"
    /\ alert_q = <<>>
    /\ alarm_ms = safety_due
    /\ safety_pc' = "delay"
    /\ safety_due' = alarm_ms + SafetyPeriodMs
    /\ UNCHANGED <<alert_q, safety_alert, h_posted, h_emergency,
                   alarm_ms, elec_due, h_lost, notalarm>>

\* lines 114-136: lorawan_send, then the alarm of ten flashes
Alarm_Emergency ==
    /\ safety_pc = "emergency"
    /\ h_emergency' = TRUE
    /\ safety_pc' = "alarm"
    /\ safety_due' = alarm_ms + AlarmFlashes * (AlarmFlashMs + AlarmFlashMs)
    /\ UNCHANGED <<alert_q, safety_alert, h_posted, alarm_ms, elec_due, h_lost, notalarm>>

\* the last vTaskDelay of the alarm ends; line 144
Alarm_Flashed ==
    /\ safety_pc = "alarm"
    /\ alarm_ms = safety_due
    /\ safety_pc' = "delay"
    /\ safety_due' = alarm_ms + SafetyPeriodMs
    /\ UNCHANGED <<alert_q, safety_alert, h_posted, h_emergency,
                   alarm_ms, elec_due, h_lost, notalarm>>

\* the delay of line 144 ends
Alarm_Delayed ==
    /\ safety_pc = "delay"
    /\ alarm_ms = safety_due
    /\ safety_pc' = "receive"
    /\ UNCHANGED <<alert_q, safety_alert, h_posted, h_emergency,
                   alarm_ms, elec_due, safety_due, h_lost, notalarm>>

\* lines 201-241 and 252: vElectricalTask runs while vSafetyTask is blocked;
\* xQueueSend with block time 0 gives the mask up when the queue is full
Alarm_Post ==
    /\ ~SafetyRuns
    /\ alarm_ms = elec_due
    /\ \E m \in AlarmReadings :
          LET safety_flags == SafetyFlags(m[1], m[2], m[3], m[4], m[5], m[6]) IN
          IF safety_flags # 0
          THEN IF Len(alert_q) < SafetyQueueLength
               THEN alert_q' = Append(alert_q, safety_flags) /\ UNCHANGED h_lost
               ELSE h_lost' = (h_lost \/ Critical(safety_flags)) /\ UNCHANGED alert_q
          ELSE UNCHANGED <<alert_q, h_lost>>
    /\ elec_due' = elec_due + MeasurementWindowMs
    /\ UNCHANGED <<safety_alert, safety_pc, h_posted, h_emergency,
                   alarm_ms, safety_due, notalarm>>

\* both tasks are blocked: the tick count reaches the next wake-up
Alarm_Tick ==
    /\ ~SafetyRuns
    /\ alarm_ms # elec_due
    /\ LET next == IF safety_due > alarm_ms /\ safety_due < elec_due
                   THEN safety_due ELSE elec_due IN
          /\ next <= MaxAlarmMs
          /\ alarm_ms' = next
    /\ UNCHANGED <<safev, elec_due, safety_due, h_lost, notalarm>>

\* the boots of the sub-models below the engine
LateBoot == AnalysisBoot /\ PayloadBoot /\ RetryBoot /\ StartBoot /\ MutexBoot /\ AlarmBoot

\* the peripherals as main leaves them
PeriphBoot ==
    AdcBoot /\ PipeBoot("main") /\ ConfigBoot /\ SafetyBoot /\ LeakBoot /\ PowerBoot /\ LateBoot

(***************************************************************************)
(* Spec: one client of the engine API.                                     *)
(***************************************************************************)
Boot ==
    /\ lorawan_state = "IDLE"
    /\ session = ZeroSession
    /\ last_tx_timestamp = 0
    /\ last_rssi = -100
    /\ last_snr = -20
    /\ now = 0
    /\ radio = [mode |-> "standby", rx |-> NoFrame]
    /\ air = <<>>
    /\ pc = [t \in Tasks |-> "idle"]
    /\ loc = [t \in Tasks |-> NoLoc]
    /\ ret = [t \in Tasks |-> "none"]
    /\ call = [t \in Tasks |-> NoCall]
    /\ h_last_ok = -1
    /\ h_wraps = 0
    /\ h_reset = FALSE
    /\ h_sent = 0
    /\ h_sleep = NoSleep

Init ==
    /\ Boot
    /\ phase = [t \in Tasks |-> "api"]
    /\ variant = "api"
    /\ PeriphBoot

ApiInitFail == variant = "api" /\ lorawan_init_fail("uplink") /\ UNCHANGED <<phase, variant, periph>>
ApiInitOk == variant = "api" /\ lorawan_init_ok("uplink") /\ UNCHANGED <<phase, variant, periph>>
ApiJoin == variant = "api" /\ lorawan_join_entry("uplink") /\ UNCHANGED <<phase, variant, periph>>
ApiJoinListen == variant = "api" /\ lorawan_join_listen("uplink") /\ UNCHANGED <<phase, variant, periph>>
ApiJoinPoll == variant = "api" /\ lorawan_join_poll("uplink") /\ UNCHANGED <<phase, variant, periph>>
ApiJoinTimeout == variant = "api" /\ lorawan_join_timeout("uplink") /\ UNCHANGED <<phase, variant, periph>>
ApiSend ==
    /\ variant = "api"
    /\ \E n \in Lengths, p \in NormalPorts : lorawan_send_check("uplink", n, p)
    /\ UNCHANGED <<phase, variant, periph>>
ApiSendGap == variant = "api" /\ lorawan_send_gap("uplink") /\ UNCHANGED <<phase, variant, periph>>
ApiSendBuild == variant = "api" /\ lorawan_send_build("uplink") /\ UNCHANGED <<phase, variant, periph>>
ApiSendTx == variant = "api" /\ lorawan_send_tx("uplink") /\ UNCHANGED <<phase, variant, periph>>
ApiSendWait == variant = "api" /\ lorawan_send_wait("uplink") /\ UNCHANGED <<phase, variant, periph>>
ApiSendUpdate == variant = "api" /\ lorawan_send_update("uplink") /\ UNCHANGED <<phase, variant, periph>>
ApiSleep == variant = "api" /\ lorawan_sleep("uplink") /\ UNCHANGED <<phase, variant, periph>>
ApiWakeup == variant = "api" /\ lorawan_wakeup("uplink") /\ UNCHANGED <<phase, variant, periph>>
ApiReset == variant = "api" /\ lorawan_reset("uplink") /\ UNCHANGED <<phase, variant, periph>>
ApiResume == variant = "api" /\ Resume("uplink") /\ UNCHANGED <<phase, variant, periph>>

Next ==
    \/ ApiInitFail \/ ApiInitOk
    \/ ApiJoin \/ ApiJoinListen \/ ApiJoinPoll \/ ApiJoinTimeout
    \/ ApiSend \/ ApiSendGap \/ ApiSendBuild \/ ApiSendTx \/ ApiSendWait \/ ApiSendUpdate
    \/ ApiSleep \/ ApiWakeup \/ ApiReset \/ ApiResume
    \/ Advance \/ RadioTxDone \/ RadioRx

Spec == Init /\ [][Next]_vars

(***************************************************************************)
(* SpecTasks: the uplink task and the emergency task of the electrical and *)
(* water variants.                                                         *)
(***************************************************************************)
tskIDLE_PRIORITY == 0

\* the tasks main creates: the LoRaWAN-only firmware has no emergency task,
\* the electrical firmware defines a monitoring priority but creates no such task
VariantTasks(v) ==
    CASE v = "water" -> {"emergency", "uplink", "sensing", "housekeeping"}
      [] v = "lorawan_only" -> {"uplink", "sensing", "housekeeping"}
      [] OTHER -> {"emergency", "uplink", "sensing"}

\* task priorities of main_electrical.c, main_water.c and main_lorawan_only.c
Priority(v, t) ==
    CASE v = "water" ->
            (CASE t = "emergency" -> tskIDLE_PRIORITY + 3
               [] t = "uplink" -> tskIDLE_PRIORITY + 2
               [] t = "sensing" -> tskIDLE_PRIORITY + 2
               [] t = "housekeeping" -> tskIDLE_PRIORITY + 1)
      [] v = "lorawan_only" ->
            (CASE t = "uplink" -> tskIDLE_PRIORITY + 2
               [] t = "sensing" -> tskIDLE_PRIORITY + 1
               [] t = "housekeeping" -> tskIDLE_PRIORITY + 1)
      [] OTHER ->
            (CASE t = "emergency" -> tskIDLE_PRIORITY + 3
               [] t = "uplink" -> tskIDLE_PRIORITY + 3
               [] t = "sensing" -> tskIDLE_PRIORITY + 2
               [] t = "housekeeping" -> tskIDLE_PRIORITY + 1)

\* payload length and port of each task's lorawan_send
TaskLength(v, t) ==
    IF v = "water" THEN (IF t = "uplink" THEN 18 ELSE 10)
    ELSE (IF t = "uplink" THEN 23 ELSE 8)

TaskPort(v, t) ==
    IF v = "water" THEN (IF t = "uplink" THEN 20 ELSE 98)
    ELSE (IF t = "uplink" THEN 10 ELSE 99)

EmergencyPorts == {98, 99}

\* a task is inside an engine call: lorawan_handler.c never blocks, it busy-waits
Running(t) == pc[t] # "idle"

\* preemptive fixed priorities with time slicing among equals
MayRun(t) == variant # "api" /\ \A o \in Tasks \ {t} : Running(o) => Priority(variant, o) <= Priority(variant, t)

InitTasks ==
    /\ Boot
    /\ phase = [t \in Tasks |-> IF t = "uplink" THEN "boot" ELSE "loop"]
    /\ variant \in {"electrical", "water"}
    /\ PeriphBoot

\* vLoRaWANTask: lorawan_init, then the error loop or lorawan_join
UplinkInitFail ==
    /\ phase["uplink"] = "boot" /\ MayRun("uplink")
    /\ lorawan_init_fail("uplink")
    /\ UNCHANGED <<phase, variant, periph>>

UplinkInitOk ==
    /\ phase["uplink"] = "boot" /\ MayRun("uplink")
    /\ lorawan_init_ok("uplink")
    /\ UNCHANGED <<phase, variant, periph>>

UplinkAfterInit ==
    /\ phase["uplink"] = "boot" /\ MayRun("uplink")
    /\ Resume("uplink")
    /\ phase' = [phase EXCEPT !["uplink"] =
                    IF ret["uplink"] = "LORAWAN_SUCCESS" THEN "join" ELSE "halt"]
    /\ UNCHANGED <<variant, periph>>

UplinkJoin ==
    /\ phase["uplink"] = "join" /\ MayRun("uplink")
    /\ lorawan_join_entry("uplink")
    /\ UNCHANGED <<phase, variant, periph>>

UplinkJoinListen ==
    /\ MayRun("uplink") /\ lorawan_join_listen("uplink") /\ UNCHANGED <<phase, variant, periph>>

UplinkJoinPoll ==
    /\ MayRun("uplink") /\ lorawan_join_poll("uplink") /\ UNCHANGED <<phase, variant, periph>>

UplinkJoinTimeout ==
    /\ MayRun("uplink") /\ lorawan_join_timeout("uplink") /\ UNCHANGED <<phase, variant, periph>>

\* the result of lorawan_join is not looked at
UplinkAfterJoin ==
    /\ phase["uplink"] = "join" /\ MayRun("uplink")
    /\ Resume("uplink")
    /\ phase' = [phase EXCEPT !["uplink"] = "loop"]
    /\ UNCHANGED <<variant, periph>>

\* a measurement has arrived in the data queue
TaskSend(t) ==
    /\ phase[t] = "loop" /\ MayRun(t)
    /\ lorawan_send_check(t, TaskLength(variant, t), TaskPort(variant, t))
    /\ UNCHANGED <<phase, variant, periph>>

TaskSendGap(t) == MayRun(t) /\ lorawan_send_gap(t) /\ UNCHANGED <<phase, variant, periph>>
TaskSendBuild(t) == MayRun(t) /\ lorawan_send_build(t) /\ UNCHANGED <<phase, variant, periph>>
TaskSendTx(t) == MayRun(t) /\ lorawan_send_tx(t) /\ UNCHANGED <<phase, variant, periph>>
TaskSendWait(t) == MayRun(t) /\ lorawan_send_wait(t) /\ UNCHANGED <<phase, variant, periph>>
TaskSendUpdate(t) == MayRun(t) /\ lorawan_send_update(t) /\ UNCHANGED <<phase, variant, periph>>

\* the task goes on to its LED indication and delay, blocked until the next item
TaskAfterSend(t) ==
    /\ phase[t] = "loop" /\ MayRun(t)
    /\ Resume(t)
    /\ UNCHANGED <<phase, variant, periph>>

UplinkSend == TaskSend("uplink")
UplinkSendGap == TaskSendGap("uplink")
UplinkSendBuild == TaskSendBuild("uplink")
UplinkSendTx == TaskSendTx("uplink")
UplinkSendWait == TaskSendWait("uplink")
UplinkSendUpdate == TaskSendUpdate("uplink")
UplinkAfterSend == TaskAfterSend("uplink")

EmergencySend == TaskSend("emergency")
EmergencySendGap == TaskSendGap("emergency")
EmergencySendBuild == TaskSendBuild("emergency")
EmergencySendTx == TaskSendTx("emergency")
EmergencySendWait == TaskSendWait("emergency")
EmergencySendUpdate == TaskSendUpdate("emergency")
EmergencyAfterSend == TaskAfterSend("emergency")

NextTasks ==
    \/ UplinkInitFail \/ UplinkInitOk \/ UplinkAfterInit
    \/ UplinkJoin \/ UplinkJoinListen \/ UplinkJoinPoll \/ UplinkJoinTimeout
    \/ UplinkAfterJoin
    \/ UplinkSend \/ UplinkSendGap \/ UplinkSendBuild \/ UplinkSendTx
    \/ UplinkSendWait \/ UplinkSendUpdate \/ UplinkAfterSend
    \/ EmergencySend \/ EmergencySendGap \/ EmergencySendBuild \/ EmergencySendTx
    \/ EmergencySendWait \/ EmergencySendUpdate \/ EmergencyAfterSend
    \/ Advance \/ RadioTxDone \/ RadioRx

SpecTasks == InitTasks /\ [][NextTasks]_vars

(***************************************************************************)
(* SpecAll: the behaviours of Spec and of SpecTasks together.              *)
(***************************************************************************)
InitAll == Init \/ InitTasks

NextAll == Next \/ NextTasks

SpecAll == InitAll /\ [][NextAll]_vars

(***************************************************************************)
(* SpecLive: Spec with fairness. The radio completes every transmission,   *)
(* and the task that busy-waits inside lorawan_send keeps running          *)
(* (lorawan_delay_ms spins, it does not block).                            *)
(***************************************************************************)
SpecLive ==
    /\ Init /\ [][Next]_vars
    /\ WF_vars(RadioTxDone)
    /\ WF_vars(ApiSendWait) /\ WF_vars(ApiSendUpdate)

(***************************************************************************)
(* SpecWrap: the API client of Spec, from a session that has already sent  *)
(* 65 534 frames; time is counted from its last transmission.              *)
(***************************************************************************)
WrapStart == Uint16 - 2

InitWrap ==
    /\ lorawan_state = "JOINED"
    /\ session = [lorawan_process_join_accept(ZeroSession,
                        [len |-> MinJoinAcceptLen, dev_addr |-> CHOOSE a \in DevAddrs : TRUE])
                        EXCEPT !.joined = TRUE, !.fcnt_up = WrapStart]
    /\ last_tx_timestamp = 0
    /\ \E q \in Readings : last_rssi = q[1] /\ last_snr = q[2]
    /\ now = 0
    /\ radio = [mode |-> "standby", rx |-> NoFrame]
    /\ air = <<>>
    /\ pc = [t \in Tasks |-> "idle"]
    /\ loc = [t \in Tasks |-> NoLoc]
    /\ ret = [t \in Tasks |-> "none"]
    /\ call = [t \in Tasks |-> NoCall]
    /\ h_last_ok = 0
    /\ h_wraps = 0
    /\ h_reset = FALSE
    /\ h_sent = WrapStart
    /\ h_sleep = NoSleep
    /\ phase = [t \in Tasks |-> "api"]
    /\ variant = "api"
    /\ PeriphBoot

SpecWrap == InitWrap /\ [][Next]_vars

(***************************************************************************)
(* SpecAdc: the acquisition interrupt against vElectricalTask.             *)
(***************************************************************************)
InitAdc ==
    /\ Boot
    /\ phase = [t \in Tasks |-> "off"]
    /\ variant = "electrical"
    /\ PeriphBoot

NextAdc ==
    \/ ADC1_IRQHandler
    \/ Elec_Wait \/ Elec_Take \/ Elec_ReadFirst \/ Elec_ReadLast
    \/ Elec_Post \/ Elec_Reset \/ Elec_Rearm

SpecAdc == InitAdc /\ [][NextAdc]_vars

(***************************************************************************)
(* SpecPipe: the telemetry queue of each firmware variant.                 *)
(***************************************************************************)
InitPipe ==
    /\ Boot
    /\ phase = [t \in Tasks |-> "off"]
    /\ variant = "pipe"
    /\ AdcBoot /\ ConfigBoot /\ SafetyBoot /\ LeakBoot /\ PowerBoot /\ LateBoot
    /\ \E f \in Firmwares : PipeBoot(f)

NextPipe ==
    \/ Prod_Send \/ Prod_Unblock \/ Prod_Timeout
    \/ Cons_Receive \/ Cons_Send \/ Cons_Rest

SpecPipe == InitPipe /\ [][NextPipe]_vars

(***************************************************************************)
(* SpecSafety: the safety masks from vElectricalTask to vSafetyTask.       *)
(***************************************************************************)
InitSafety ==
    /\ Boot
    /\ phase = [t \in Tasks |-> "off"]
    /\ variant = "electrical"
    /\ PeriphBoot

NextSafety ==
    \/ Elec_SafetyCheck
    \/ Safety_Receive \/ Safety_Emergency \/ Safety_Delay

SpecSafety == InitSafety /\ [][NextSafety]_vars

(***************************************************************************)
(* SpecLeak: the leak-check cycles of vLeakDetectionTask.                  *)
(***************************************************************************)
InitLeak ==
    /\ Boot
    /\ phase = [t \in Tasks |-> "off"]
    /\ variant = "water"
    /\ PeriphBoot

NextLeak == Leak_Measure \/ Leak_Detect

SpecLeak == InitLeak /\ [][NextLeak]_vars

(***************************************************************************)
(* SpecPower: the passes of vPowerTask.                                    *)
(***************************************************************************)
InitPower ==
    /\ Boot
    /\ phase = [t \in Tasks |-> "off"]
    /\ variant = "pipe"
    /\ AdcBoot /\ PipeBoot("lorawan_only") /\ ConfigBoot /\ SafetyBoot /\ LeakBoot
    /\ PowerBoot /\ LateBoot

NextPower == Power_Check \/ Power_Delay

SpecPower == InitPower /\ [][NextPower]_vars

(***************************************************************************)
(* SpecAnalysis: the analysis cycles of vElectricalTask.                   *)
(***************************************************************************)
InitAnalysis ==
    /\ Boot
    /\ phase = [t \in Tasks |-> "off"]
    /\ variant = "electrical"
    /\ PeriphBoot

NextAnalysis ==
    Elec_Distortion \/ Elec_Power \/ Elec_Frequency \/ Elec_Grade \/ Elec_Next

SpecAnalysis == InitAnalysis /\ [][NextAnalysis]_vars

(***************************************************************************)
(* SpecPayload: the payloads vLoRaWANTask of main_electrical.c builds.     *)
(***************************************************************************)
InitPayload ==
    /\ Boot
    /\ phase = [t \in Tasks |-> "off"]
    /\ variant = "electrical"
    /\ AdcBoot /\ PipeBoot("electrical") /\ ConfigBoot /\ SafetyBoot /\ LeakBoot
    /\ PowerBoot /\ LateBoot

NextPayload == Uplink_Receive \/ Uplink_Build \/ Uplink_Crc \/ Uplink_Hand

SpecPayload == InitPayload /\ [][NextPayload]_vars

(***************************************************************************)
(* SpecUplink: the uplink task alone, from its start to its send loop.     *)
(* The task is the only one ready, so it keeps running, and the radio      *)
(* completes every transmission; nothing obliges a gateway to answer.      *)
(***************************************************************************)
InitUplink ==
    /\ Boot
    /\ phase = [t \in Tasks |-> IF t = "uplink" THEN "boot" ELSE "off"]
    /\ variant \in {"electrical", "water"}
    /\ PeriphBoot

UplinkStep ==
    \/ UplinkInitFail \/ UplinkInitOk \/ UplinkAfterInit
    \/ UplinkJoin \/ UplinkJoinListen \/ UplinkJoinPoll \/ UplinkJoinTimeout
    \/ UplinkAfterJoin
    \/ UplinkSend \/ UplinkSendGap \/ UplinkSendBuild \/ UplinkSendTx
    \/ UplinkSendWait \/ UplinkSendUpdate \/ UplinkAfterSend

NextUplink == UplinkStep \/ Advance \/ RadioTxDone \/ RadioRx

SpecUplink ==
    /\ InitUplink /\ [][NextUplink]_vars
    /\ WF_vars(UplinkStep) /\ WF_vars(RadioTxDone)

(***************************************************************************)
(* SpecRetry: the send loop of the LoRaWAN-only uplink task.  The task     *)
(* keeps running: its delays end and lorawan_send returns.                 *)
(***************************************************************************)
InitRetry ==
    /\ Boot
    /\ phase = [t \in Tasks |-> "off"]
    /\ variant = "pipe"
    /\ AdcBoot /\ PipeBoot("lorawan_only") /\ ConfigBoot /\ SafetyBoot /\ LeakBoot
    /\ PowerBoot /\ LateBoot

NextRetry == Lo_Receive \/ Lo_Try \/ Lo_Backoff \/ Lo_Check \/ Lo_Rest

SpecRetry ==
    /\ InitRetry /\ [][NextRetry]_vars
    /\ WF_vars(Lo_Try) /\ WF_vars(Lo_Backoff) /\ WF_vars(Lo_Check)

(***************************************************************************)
(* SpecDegrade: the send loop of the LoRaWAN-only uplink task and the      *)
(* power task.  The power task has the lower priority: it runs while the   *)
(* uplink task waits for a packet, delays or sleeps.                       *)
(***************************************************************************)
UplinkBlocked == cons_pc \in {"receive", "backoff", "rest"}

Governor_Check == UplinkBlocked /\ Power_Check

Governor_Delay == UplinkBlocked /\ Power_Delay

NextDegrade ==
    \/ Lo_Receive \/ Lo_Try \/ Lo_Backoff \/ Lo_Check \/ Lo_Rest
    \/ Governor_Check \/ Governor_Delay

SpecDegrade == InitRetry /\ [][NextDegrade]_vars

(***************************************************************************)
(* SpecStart: the start of the LoRaWAN-only uplink task and the power      *)
(* task, which runs while the uplink task is in a delay or waits for a     *)
(* packet.                                                                 *)
(***************************************************************************)
StartBlocked == boot_pc \in {"init_delay", "halt", "loop"}

Starter_Check == StartBlocked /\ Power_Check

Starter_Delay == StartBlocked /\ Power_Delay

NextStart ==
    \/ Lo_Init \/ Lo_InitDelay \/ Lo_Join \/ Lo_JoinFailed \/ Lo_EnterLoop
    \/ Starter_Check \/ Starter_Delay

SpecStart == InitRetry /\ [][NextStart]_vars

(***************************************************************************)
(* SpecMutex: the tasks that take the shared mutex.  The holder is never   *)
(* blocked between take and give, so it reaches its give.                  *)
(***************************************************************************)
InitMutex ==
    /\ Boot
    /\ phase = [t \in Tasks |-> "off"]
    /\ variant = "pipe"
    /\ PeriphBoot

NextMutex ==
    \/ Mx_Create
    \/ Mutex_Take \/ Mutex_Timeout \/ Mutex_Hold \/ Mutex_Give
    \/ Mutex_Operate \/ Mutex_Skip \/ Mutex_Delay

SpecMutex ==
    /\ InitMutex /\ [][NextMutex]_vars
    /\ WF_vars(Mutex_Hold) /\ WF_vars(Mutex_Give)

(***************************************************************************)
(* SpecAlarm: vElectricalTask and vSafetyTask on the tick clock.           *)
(***************************************************************************)
InitAlarm ==
    /\ Boot
    /\ phase = [t \in Tasks |-> "off"]
    /\ variant = "pipe"
    /\ PeriphBoot

NextAlarm ==
    \/ Alarm_Block \/ Alarm_Receive \/ Alarm_ReceiveTimeout
    \/ Alarm_Emergency \/ Alarm_Flashed \/ Alarm_Delayed
    \/ Alarm_Post \/ Alarm_Tick

SpecAlarm == InitAlarm /\ [][NextAlarm]_vars

(***************************************************************************)
(* SpecClock: the API client of Spec with the timestamp running round. The *)
(* timestamp is TIM2's 32-bit microsecond count divided by 1000 (lines 309 *)
(* and 398), so it runs from 0 to TimerWrapMs - 1 and starts again at 0.   *)
(* It is observed at the instants of ClockPoints, in order: the poll loop  *)
(* of lorawan_join reads it without pause.                                 *)
(***************************************************************************)
ClockPoints == {0, JoinTimeoutMs, TimerWrapMs - JoinTimeoutMs - 1,
                TimerWrapMs - 100, TimerWrapMs - 1}

\* the instant observed after n
ClockNext(n) ==
    IF \E p \in ClockPoints : p > n
    THEN CHOOSE p \in ClockPoints : p > n /\ \A q \in ClockPoints : q > n => p <= q
    ELSE CHOOSE p \in ClockPoints : \A q \in ClockPoints : p <= q

\* lorawan_get_timestamp: the count moves on and wraps at the end of its range
AdvanceClock ==
    /\ now' = ClockNext(now)
    /\ h_wraps' = IF now' < now /\ h_wraps < 2 THEN h_wraps + 1 ELSE h_wraps
    /\ call' = [t \in Tasks |->
                  IF now' < now /\ call[t].wraps < 2 /\ pc[t] \in {"send_build", "send_tx", "send_wait", "send_upd"}
                  THEN [call[t] EXCEPT !.wraps = @ + 1] ELSE call[t]]
    /\ UNCHANGED <<engine, radio, air, pc, loc, ret, h_last_ok, h_reset, h_sent, h_sleep,
                   phase, variant, periph>>

NextClock ==
    \/ ApiInitOk
    \/ ApiJoin \/ ApiJoinListen \/ ApiJoinPoll \/ ApiJoinTimeout
    \/ ApiSend \/ ApiSendGap \/ ApiSendBuild \/ ApiSendTx \/ ApiSendWait \/ ApiSendUpdate
    \/ ApiResume
    \/ AdvanceClock \/ RadioTxDone \/ RadioRx

SpecClock == Init /\ [][NextClock]_vars

(***************************************************************************)
(* SpecClockLive: SpecClock with fairness. The timer never stops, the      *)
(* radio completes every transmission, and the task that spins in the poll *)
(* loop of lorawan_join (lines 109-119) reads the timestamp at every       *)
(* instant, so it leaves the loop if the loop condition is false again and *)
(* again.                                                                  *)
(***************************************************************************)
SpecClockLive ==
    /\ Init /\ [][NextClock]_vars
    /\ WF_vars(AdvanceClock) /\ WF_vars(RadioTxDone)
    /\ WF_vars(ApiJoinListen) /\ SF_vars(ApiJoinTimeout)

(***************************************************************************)
(* Properties.                                                             *)
(***************************************************************************)
SendDone(t) == pc[t] = "ret" /\ call[t].op = "send"
JoinDone(t) == pc[t] = "ret" /\ call[t].op = "join"

SendPcs == {"send_gap", "send_build", "send_tx", "send_wait", "send_upd"}
InsidePcs == SendPcs \cup {"join_tx", "join_poll"}

C2_NoNetwork ==
    \A t \in Tasks :
        (SendDone(t) /\ ~call[t].sess0.joined) =>
            ret[t] = "LORAWAN_ERROR_NO_NETWORK"

C2_Witness ==
    \E t \in Tasks :
        /\ SendDone(t) /\ ~call[t].sess0.joined
        /\ call[t].st0 = "JOINING"
        /\ ret[t] = "LORAWAN_ERROR_NO_NETWORK"

\* C3: the uplink frame counter is 0 right after a successful join, each
\* successful send adds exactly 1 to it, so after k successful sends in the
\* session it equals k, and a failed send leaves it unchanged.
C3_FcntCounts ==
    /\ session.joined => session.fcnt_up = h_sent
    /\ \A t \in Tasks :
          /\ (JoinDone(t) /\ ret[t] = "LORAWAN_SUCCESS") => session.fcnt_up = 0
          /\ (SendDone(t) /\ ret[t] = "LORAWAN_SUCCESS") =>
                session.fcnt_up = call[t].sess0.fcnt_up + 1
          /\ (SendDone(t) /\ ret[t] # "LORAWAN_SUCCESS") =>
                session.fcnt_up = call[t].sess0.fcnt_up

C3_Witness ==
    /\ session.joined /\ h_sent = 2 /\ session.fcnt_up = 2
    /\ SendDone("uplink") /\ ret["uplink"] = "LORAWAN_SUCCESS"

\* the emergency task's lorawan_send returns in this step
EmergencyReturns == pc["emergency"] # "ret" /\ pc'["emergency"] = "ret"

C5_EmergencyBypass ==
    (/\ SendDone("emergency") /\ call["emergency"].sess0.joined
     /\ call["emergency"].st0 = "JOINED" /\ call["emergency"].since = "within")
        => ret["emergency"] = "LORAWAN_SUCCESS"

\* C6: under every interleaving of the tasks that call lorawan_send, the
\* frame counters of the data frames transmitted in one session are strictly
\* increasing in transmission order.
C6_FcntOnAirIncreasing ==
    \A i, j \in 1..Len(air) :
        (i < j /\ air[i].kind = "data" /\ air[j].kind = "data") =>
            air[i].fcnt < air[j].fcnt

\* C7: at no time are two tasks inside engine operations between the entry
\* check and the final state update.
C7_OneTaskInside ==
    Cardinality({t \in Tasks : pc[t] \in InsidePcs}) <= 1

\* C8: lorawan_send called while the session is joined but the engine state is
\* not Joined fails with Busy, not NoNetwork, and transmits nothing.
C8_WrongStateBusy ==
    \A t \in Tasks :
        (SendDone(t) /\ call[t].sess0.joined /\ call[t].st0 # "JOINED") =>
            ret[t] = "LORAWAN_ERROR_BUSY"

\* C9: in state Joined a lorawan_send with length > 242 returns SendRejected,
\* inside and outside the duty-cycle gap, and every length <= 242 passes the
\* size check.
C9_SizeCheck ==
    \A t \in Tasks :
        /\ (SendDone(t) /\ call[t].sess0.joined /\ call[t].st0 = "JOINED") =>
              (call[t].length > MaxPayload <=> ret[t] = "LORAWAN_ERROR_SEND")
        /\ (SendDone(t) /\ ret[t] = "LORAWAN_ERROR_SEND") =>
              Len(air) = call[t].air0
        /\ pc[t] \in SendPcs => call[t].length <= MaxPayload

C9_Witness ==
    \E t \in Tasks :
        /\ SendDone(t) /\ call[t].sess0.joined /\ call[t].st0 = "JOINED"
        /\ call[t].length > MaxPayload /\ call[t].since = "within"
        /\ ret[t] = "LORAWAN_ERROR_SEND"

\* C10: when lorawan_join returns JoinFailed the engine state is Idle,
\* session.joined is false and the session is as it was before the call;
\* a received frame shorter than 17 bytes changes nothing.
C10_JoinFailure ==
    \A t \in Tasks :
        /\ (JoinDone(t) /\ ret[t] = "LORAWAN_ERROR_JOIN") =>
              /\ lorawan_state = "IDLE"
              /\ ~session.joined
              /\ session = call[t].sess0
        /\ (pc[t] = "join_poll" /\ call[t].rx_short) =>
              session = call[t].sess0 /\ lorawan_state = "JOINING"

C10_Witness ==
    \E t \in Tasks :
        /\ JoinDone(t) /\ ret[t] = "LORAWAN_ERROR_JOIN"
        /\ call[t].rx_short
        /\ lorawan_state = "IDLE"

\* task t calls lorawan_join in this step
JoinCalled(t) == pc[t] = "idle" /\ call'[t].op = "join"

\* the lorawan_join of task t returns in this step
JoinReturns(t) == pc[t] # "ret" /\ pc'[t] = "ret" /\ call'[t].op = "join"

\* C11: lorawan_join is accepted only in state Idle: called in any other
\* state it returns Busy at once, transmits no join request and changes
\* nothing in the engine; when it returns Success both frame counters are 0,
\* session.joined is true and the engine state is Joined.
C11_JoinContract ==
    [][\A t \in Tasks :
          /\ (JoinCalled(t) /\ lorawan_state # "IDLE") =>
                /\ JoinReturns(t) /\ ret'[t] = "LORAWAN_ERROR_BUSY"
                /\ air' = air /\ engine' = engine
          /\ (JoinCalled(t) /\ lorawan_state = "IDLE") =>
                /\ ~JoinReturns(t)
                /\ air' = Append(air, [kind |-> "join", fcnt |-> 0, port |-> 0])
          /\ (JoinReturns(t) /\ ret'[t] = "LORAWAN_SUCCESS") =>
                /\ session'.fcnt_up = 0 /\ session'.fcnt_down = 0
                /\ session'.joined
                /\ lorawan_state' = "JOINED"]_vars

\* a join succeeds in a session that follows one in which frames were sent
C11_Witness ==
    \E t \in Tasks :
        /\ JoinDone(t) /\ ret[t] = "LORAWAN_SUCCESS"
        /\ call[t].st0 = "IDLE"
        /\ h_last_ok >= 0
        /\ session.joined /\ session.fcnt_up = 0 /\ session.fcnt_down = 0
        /\ lorawan_state = "JOINED"

WakeDone(t) == pc[t] = "ret" /\ call[t].op = "wakeup"

\* C12: lorawan_sleep followed by lorawan_wakeup restores the logical state
\* without re-joining: while asleep the session is untouched, and after the
\* wakeup the engine state is Joined if session.joined was true before the
\* sleep and Idle otherwise, every session field is as it was before the
\* sleep, and no frame (so no join request) has been transmitted.
C12_SleepWakeup ==
    /\ (h_sleep.set /\ \A t \in Tasks : ~WakeDone(t)) =>
            lorawan_state = "SLEEP" /\ session = h_sleep.sess
    /\ \A t \in Tasks :
          (WakeDone(t) /\ h_sleep.set) =>
              /\ lorawan_state = (IF h_sleep.sess.joined THEN "JOINED" ELSE "IDLE")
              /\ session = h_sleep.sess
              /\ Len(air) = h_sleep.air

\* a joined session that has sent a frame is put to sleep and woken up
C12_Witness ==
    \E t \in Tasks :
        /\ WakeDone(t) /\ h_sleep.set
        /\ h_sleep.sess.joined /\ h_sleep.sess.fcnt_up >= 1
        /\ call[t].st0 = "SLEEP"
        /\ lorawan_state = "JOINED"

\* C13: between a successful join and the next reset or re-join the uplink
\* frame counter never decreases, whatever the number of successful sends,
\* more than 65 535 included.
C13_FcntNeverDecreases ==
    [][(session.joined /\ session'.joined) =>
          session'.fcnt_up >= session.fcnt_up]_vars

\* the engine state goes from a to b in this step
Allowed(a, b) ==
    /\ b = "JOINING" => a = "IDLE"
    /\ a = "JOINING" => b \in {"JOINED", "IDLE"}
    /\ b = "SENDING" => a = "JOINED"
    /\ a = "SENDING" => b = "JOINED"
    /\ a = "SLEEP" => b \in {"JOINED", "IDLE"}

\* a call of operation op by task t returns r in this step
Returns(t, op, r) ==
    pc[t] # "ret" /\ pc'[t] = "ret" /\ call'[t].op = op /\ ret'[t] = r

\* every change of the engine state is an edge of the protocol graph, made by
\* the operation the graph names
C14_Edges ==
    [][/\ lorawan_state' # lorawan_state => Allowed(lorawan_state, lorawan_state')
       /\ (lorawan_state = "JOINING" /\ lorawan_state' = "JOINED") =>
             \E t \in Tasks : Returns(t, "join", "LORAWAN_SUCCESS")
       /\ (lorawan_state = "JOINING" /\ lorawan_state' = "IDLE") =>
             \E t \in Tasks : Returns(t, "join", "LORAWAN_ERROR_JOIN")
       /\ (lorawan_state = "SENDING" /\ lorawan_state' = "JOINED") =>
             \E t \in Tasks : Returns(t, "send", "LORAWAN_SUCCESS")
       /\ (lorawan_state = "SLEEP" /\ lorawan_state' # "SLEEP") =>
             \E t \in Tasks :
                 \/ Returns(t, "wakeup", "LORAWAN_SUCCESS")
                 \/ Returns(t, "reset", "LORAWAN_SUCCESS")
                 \/ Returns(t, "init", "LORAWAN_SUCCESS")
       /\ \A t \in Tasks :
             (Returns(t, "reset", "LORAWAN_SUCCESS")
                \/ Returns(t, "init", "LORAWAN_SUCCESS")) =>
                   lorawan_state' = "IDLE"]_vars

\* every Sending state is eventually followed by Joined
C14_SendingEnds == (lorawan_state = "SENDING") ~> (lorawan_state = "JOINED")

\* C14: every change of the engine state follows the protocol graph: Joining
\* is entered only from Idle and left only to Joined (accept) or Idle
\* (timeout), Sending is entered only from Joined and left only to Joined on
\* transmission completion, Sleep is left only by wakeup to Joined or Idle
\* (or by reset/init to Idle), reset and a successful init lead to Idle; and
\* when the radio's completion signal is fair, every Sending state is
\* eventually followed by Joined.
C14_ProtocolGraph == C14_Edges /\ C14_SendingEnds

\* a second frame of the session has gone through Sending and back to Joined
C14_Witness ==
    \E t \in Tasks :
        /\ SendDone(t) /\ ret[t] = "LORAWAN_SUCCESS"
        /\ call[t].st0 = "JOINED" /\ lorawan_state = "JOINED"
        /\ h_sent >= 2

\* C15: the acquisition interrupt stores no sample between the moment the
\* buffer is marked ready and the moment vElectricalTask has read it and
\* reset the index (so no unread sample is overwritten and the buffer is not
\* written while it is read), and the task starts acquisition again only
\* after its last read of the buffer.
C15_BufferHandover ==
    [][/\ ADC1_IRQHandler => (~h_window /\ ~adc_buffer_ready /\ elec_pc \notin ReadPcs)
       /\ (elec_pc \in ReadPcs \/ h_window) => adc_buffer' = adc_buffer
       /\ (adc_on' /\ ~adc_on) => (elec_pc = "rearm" /\ ~h_window)]_vars

\* a full buffer is being read, acquisition stopped, after an earlier buffer
\* has been consumed and acquisition re-armed
C15_Witness ==
    /\ elec_pc = "read_last" /\ h_window /\ ~adc_on
    /\ \E i \in DOMAIN adc_buffer : adc_buffer[i] = 1
    /\ \E i \in DOMAIN adc_buffer : adc_buffer[i] = 0

\* C16: when the telemetry queue stays full for the whole block time of the
\* producer's send, the producing task receives the would-block outcome and
\* acts on it: in no firmware variant is a measurement discarded without its
\* producer looking at the failure.
C16_NoSilentDrop == ~h_silent

\* C17: when lorawan_send fails with Busy or NoNetwork for an item taken from
\* the telemetry queue, the uplink task retries or degrades its parameters:
\* in no firmware variant is the item given up with no retry and no
\* parameter change.
C17_FailureHandled == ~h_unreacted

\* the flags of a mask, by bit number
FlagsOf(mask) == {i \in 0..7 : (mask \div (2 ^ i)) % 2 = 1}

\* over-voltage, over-current, over-power
CatastrophicFlags == {0, 2, 3}

\* C18: vSafetyTask issues an emergency transmission for a received mask if
\* and only if the mask holds at least one catastrophic flag (over-voltage,
\* over-current, over-power); a mask of non-catastrophic flags only triggers
\* none; an empty mask is never posted.
C18_EmergencyIffCatastrophic ==
    /\ safety_pc = "emergency" => FlagsOf(safety_alert) \cap CatastrophicFlags # {}
    /\ safety_pc = "delay" =>
            (h_emergency <=> FlagsOf(safety_alert) \cap CatastrophicFlags # {})
    /\ \A i \in 1..Len(alert_q) : alert_q[i] # 0
    /\ safety_pc # "receive" => safety_alert # 0

\* a mask of under-voltage, low power factor, distortion and frequency
\* deviation has been received and no emergency is issued, while a mask
\* with over-current waits in the queue
C18_Witness ==
    /\ safety_pc = "delay" /\ ~h_emergency
    /\ FlagsOf(safety_alert) = {1, 4, 5, 6}
    /\ alert_q # <<>> /\ 2 \in FlagsOf(Head(alert_q))

\* twice the trend of the readings taken so far: the latest reading minus
\* the reading two cycles earlier
LatestDrop ==
    h_readings[Len(h_readings)] - h_readings[Len(h_readings) - 2]

\* C19: on every cycle with at least three readings the trend is (latest -
\* reading two cycles earlier) / 2, and the leak alert is raised when the
\* trend is below minus the threshold, at every position of the 10-entry
\* circular history.
C19_TrendEveryCycle ==
    (leak_pc = "measure" /\ Len(h_readings) >= 3) =>
        /\ 2 * pressure_trend = LatestDrop
        /\ h_leak <=> (LatestDrop < -(2 * LeakThreshold))

\* the bands as interval, spreading factor, power
Bands == {<<3600000, 12, 10>>, <<1800000, 11, 12>>, <<300000, 10, 14>>}

\* the configuration as interval, spreading factor, power
Selected == <<device_config.sampling_rate, device_config.lora_sf, device_config.tx_power>>

\* C20: for every battery level b the pass of vPowerTask leaves exactly one
\* band selected: critical (3 600 000 ms, SF 12, power 10) for b < 20,
\* conservative (1 800 000 ms, SF 11, power 12) for 20 <= b < 50, normal
\* (300 000 ms, SF 10, power 14) for b >= 50; 15 selects critical and 70
\* selects normal.
C20_BatteryBands ==
    power_pc = "delay" =>
        /\ Cardinality({band \in Bands : Selected = band}) = 1
        /\ battery_level < 20 => Selected = <<3600000, 12, 10>>
        /\ (20 <= battery_level /\ battery_level < 50) => Selected = <<1800000, 11, 12>>
        /\ battery_level >= 50 => Selected = <<300000, 10, 14>>
        /\ battery_level = 15 => device_config.lora_sf = 12
        /\ battery_level = 70 => device_config.lora_sf = 10

\* a pass has read the level 20, the lowest of the conservative band
C20_Witness ==
    /\ power_pc = "delay"
    /\ battery_level = 20
    /\ Selected = <<1800000, 11, 12>>

\* the threshold bands a result has crossed
BandsCrossed(data) ==
    {b \in {"thd3", "thd5", "pf95", "pf85", "f05", "f10"} :
        \/ b = "thd3" /\ (data.thd_voltage > 30 \/ data.thd_current > 30)
        \/ b = "thd5" /\ (data.thd_voltage > 50 \/ data.thd_current > 50)
        \/ b = "pf95" /\ data.power_factor < 950
        \/ b = "pf85" /\ data.power_factor < 850
        \/ b = "f05" /\ (data.frequency - 500 > 5 \/ 500 - data.frequency > 5)
        \/ b = "f10" /\ (data.frequency - 500 > 10 \/ 500 - data.frequency > 10)}

Abs(x) == IF x >= 0 THEN x ELSE -x

\* the results that are no better than data in any input
NoBetter(data) ==
    {[data EXCEPT !.thd_voltage = tv, !.thd_current = tc, !.power_factor = pf,
                  !.frequency = f] :
        tv \in {t \in ThdLevels : t >= data.thd_voltage},
        tc \in {t \in ThdLevels : t >= data.thd_current},
        pf \in {x \in {-1000, 0, 849, 850, 949, 950, 1000} : x <= data.power_factor},
        f \in {x \in FrequencyLevels : Abs(x - 500) >= Abs(data.frequency - 500)}}

\* C21: the quality grade is in 0..5, equals min(5, number of threshold
\* bands crossed across distortion, power factor and frequency deviation),
\* and does not improve when distortion, power-factor deviation or frequency
\* deviation increases with the other inputs fixed.
C21_QualityGrade ==
    ana_pc = "graded" =>
        /\ electrical_data.quality_grade \in 0..5
        /\ electrical_data.quality_grade =
               IF Cardinality(BandsCrossed(electrical_data)) > 5 THEN 5
               ELSE Cardinality(BandsCrossed(electrical_data))
        /\ \A worse \in NoBetter(electrical_data) :
               calculate_power_quality_grade(worse) >= electrical_data.quality_grade

\* all six bands are crossed and the grade is the worst one
C21_Witness ==
    /\ ana_pc = "graded"
    /\ Cardinality(BandsCrossed(electrical_data)) = 6
    /\ electrical_data.quality_grade = 5

\* C22: in every analysis cycle, negative active power included, the power
\* factor lies in [0.0, 1.0], and it is exactly 1.0 whenever the apparent
\* power is below 0.1.
C22_PowerFactorRange ==
    ana_pc \in {"frequency", "grade", "graded"} =>
        /\ electrical_data.power_factor >= 0
        /\ electrical_data.power_factor <= 1000
        /\ electrical_data.power_apparent < 10 => electrical_data.power_factor = 1000

\* the big-endian number in bytes i..j of a buffer
RECURSIVE BigEndian(_, _, _)
BigEndian(buf, i, j) ==
    IF i > j THEN 0 ELSE BigEndian(buf, i, j - 1) * Uint8 + buf[j]

\* C23: the payload handed to lorawan_send has 24 bytes in the order sector,
\* node, type, safety flags, voltage(2), current(2), active power(2), power
\* factor, frequency, THD voltage, THD current, quality grade, timestamp(4),
\* reactive power(2), battery, CRC-8, and the last byte is the CRC of all
\* bytes before it.
C23_PayloadLayout ==
    (pay_pc = "receive" /\ h_handed # NoHanded) =>
        LET buf == h_handed.buf IN
        /\ h_handed.len = 24
        /\ Len(buf) = h_handed.len
        /\ buf[1] = 1 /\ buf[2] = 1 /\ buf[3] = 16
        /\ buf[4] = tx_data.safety_status
        /\ BigEndian(buf, 5, 6) = tx_data.voltage_rms
        /\ BigEndian(buf, 7, 8) = tx_data.current_rms
        /\ BigEndian(buf, 9, 10) = tx_data.power_active
        /\ buf[11] = tx_data.power_factor
        /\ buf[12] = tx_data.frequency - 450
        /\ buf[13] = tx_data.thd_voltage
        /\ buf[14] = tx_data.thd_current
        /\ buf[15] = tx_data.quality_grade
        /\ BigEndian(buf, 16, 19) = tx_data.timestamp
        /\ BigEndian(buf, 20, 21) = tx_data.power_reactive
        /\ buf[22] \in TxBattery
        /\ buf[Len(buf)] = calculate_crc8(buf, Len(buf) - 1)

\* C24: after lorawan_join has failed the uplink task attempts a join again
\* later, so the node does not stay unjoined for ever.
C24_JoinRetried ==
    (phase["uplink"] = "loop" /\ ~session.joined)
        ~> (call["uplink"].op = "join" \/ session.joined)

\* the counts of the retry loop, while it runs and after it
C25_Counts ==
    /\ h_calls <= 3
    /\ cons_pc \in {"check", "rest"} =>
          /\ packet_sequence \in {h_seq0, h_seq0 + 1}
          /\ packet_sequence = h_seq0 + 1 =>
                h_wait_ms = (h_calls - 1) * 5000
          /\ packet_sequence = h_seq0 => (h_calls = 3 /\ h_wait_ms = 3 * 5000)
    /\ cons_pc \in {"try", "backoff"} => packet_sequence = h_seq0

\* C25: for each packet the LoRaWAN-only uplink task calls lorawan_send at
\* most 3 times, waits 5 s after each failed attempt, stops at the first
\* success with the sequence number incremented exactly once, and its retry
\* loop always ends.
C25_RetryLoop ==
    /\ []C25_Counts
    /\ (cons_pc = "try") ~> (cons_pc = "rest")

\* a packet went out at the third attempt, after two delays
C25_Witness ==
    /\ cons_pc = "rest"
    /\ h_calls = 3
    /\ packet_sequence = h_seq0 + 1
    /\ h_wait_ms = 10000

\* C26: whenever the retry budget is exhausted the sampling interval after
\* the degradation is greater than or equal to its value before, whatever
\* band the power task had selected.
C26_DegradeExtends ==
    [][(cons_pc = "check" /\ cons_pc' = "rest" /\ retry_count >= 3) =>
          device_config'.sampling_rate >= device_config.sampling_rate]_vars

\* C27: after a failed join the spreading factor is 12 and the sampling
\* interval is not shorter than it was before the join attempt, whatever the
\* power task did before.
C27_JoinFailureDegrades ==
    (boot_pc = "after_join" /\ h_join.failed) =>
        /\ device_config.lora_sf = 12
        /\ device_config.sampling_rate >= h_join.rate0

\* C28: each of sampling interval, spreading factor and transmit power has a
\* single writer: no field is written by more than one task.
C28_SingleWriter ==
    \A f \in ConfigFields : Cardinality(h_writers[f]) <= 1

\* C29: in every variant the emergency task has strictly higher priority than
\* the uplink task, the uplink task than the sensing task, and the sensing
\* task than the housekeeping task.
PriorityOrder == <<"emergency", "uplink", "sensing", "housekeeping">>

C29_PriorityOrder ==
    \A i, j \in 1..Len(PriorityOrder) :
        (/\ i < j
         /\ PriorityOrder[i] \in VariantTasks(variant)
         /\ PriorityOrder[j] \in VariantTasks(variant)) =>
            Priority(variant, PriorityOrder[i]) > Priority(variant, PriorityOrder[j])

\* C30: no task holds the shared mutex while it calls lorawan_send or while
\* it is at a mailbox send or receive, and a mutex that is held is eventually
\* released.
C30_FreeAtOperation ==
    \A t \in MutexTaskNames :
        (Created(t) /\ At(t).op \in {"radio", "mailbox"}) => mutex # t

C30_MutexReleased ==
    /\ []C30_FreeAtOperation
    /\ (mutex # "none") ~> (mutex = "none")

\* the leak task calls lorawan_send after its give, while vWaterTask holds the
\* mutex
C30_Witness ==
    /\ mx_fw = "water"
    /\ At("vLeakDetectionTask").op = "radio"
    /\ mutex = "vWaterTask"

\* C31: the LoRaWAN-only uplink task enters its error loop only if no
\* lorawan_init attempt returned success.
C31_HaltOnlyWithoutInit ==
    (boot_pc = "halt") => ~h_init_ok

\* C32: when the xQueueSend of the LoRaWAN-only sensor task times out, the
\* reset leaves the mailbox empty (the queued packets and the one that was not
\* queued are gone) and nothing else changes: the packet is not queued again.
C32_FlushOnly ==
    [][(/\ fw = "lorawan_only"
        /\ prod_pc = "blocked" /\ prod_pc' = "sample"
        /\ mbox = QueueLength(fw)) =>
           (/\ mbox' = 0
            /\ UNCHANGED <<cons_pc, retry_count, device_config, h_silent, h_unreacted>>)]_vars

\* the sensor task has just flushed a full mailbox
C32_Witness ==
    fw = "lorawan_only" /\ h_flushed /\ mbox = 0 /\ prod_pc = "sample"

SendErrorReturn(t) ==
    /\ pc[t] # "ret" /\ pc'[t] = "ret"
    /\ call'[t].op = "send"
    /\ ret'[t] \in {"LORAWAN_ERROR_NO_NETWORK", "LORAWAN_ERROR_SEND", "LORAWAN_ERROR_BUSY"}

C35_ErrorSendNoEffect ==
    [][\A t \in Tasks :
          SendErrorReturn(t) =>
              /\ UNCHANGED <<lorawan_state, session, last_tx_timestamp, last_rssi,
                             last_snr, air, radio>>
              /\ lorawan_state = call'[t].st0
              /\ session = call'[t].sess0
              /\ Len(air) = call'[t].air0]_vars

\* a send inside the gap after a transmitted frame has returned Busy
C35_Witness ==
    \E t \in Tasks :
        /\ pc[t] = "ret" /\ call[t].op = "send" /\ ret[t] = "LORAWAN_ERROR_BUSY"
        /\ call[t].since = "within"
        /\ Len(air) = call[t].air0 /\ session.fcnt_up >= 1

\* C36: lorawan_send returns Busy only if a data transmission succeeded less
\* than the gap earlier; with no successful transmission since boot it is
\* never rejected as Busy.
C36_BusyOnlyAfterSend ==
    \A t \in Tasks :
        (SendDone(t) /\ ret[t] = "LORAWAN_ERROR_BUSY") => call[t].since = "within"

\* C37: the gap between two successful transmissions holds in real elapsed
\* time also when the timestamp wraps: a send issued less than the gap after a
\* successful one is rejected as Busy.
C37_GapAcrossWrap ==
    \A t \in Tasks :
        (SendDone(t) /\ call[t].since = "within"
            /\ SendPrecheck(call[t].sess0.joined, call[t].st0, call[t].length) = "pass")
        => ret[t] = "LORAWAN_ERROR_BUSY"

\* C38: lorawan_join always terminates: once the join request has been
\* transmitted and the window is open, the call returns.
C38_JoinTerminates ==
    \A t \in Tasks : (pc[t] = "join_poll") ~> (pc[t] = "ret")

\* C39: the time of the last transmission is changed only by a successful
\* lorawan_send; init, join, sleep, wakeup and reset leave it unchanged, so
\* the first send of a session that began after a reset is rejected as Busy
\* when the previous transmission is less than the gap old.
C39_TimestampKept ==
    [][/\ (last_tx_timestamp' # last_tx_timestamp) =>
              \E t \in Tasks : /\ pc[t] = "send_upd" /\ pc'[t] = "ret"
                               /\ ret'[t] = "LORAWAN_SUCCESS"
       /\ \A t \in Tasks :
              (pc[t] = "send_gap" /\ h_reset /\ h_sent = 0 /\ Since = "within")
              => (pc'[t] = "send_gap" \/ ret'[t] = "LORAWAN_ERROR_BUSY")]_vars

\* a send refused as Busy in a session joined after a reset, inside the gap
\* of the transmission made before the reset
C39_Witness ==
    \E t \in Tasks :
        /\ SendDone(t) /\ ret[t] = "LORAWAN_ERROR_BUSY"
        /\ h_reset /\ h_sent = 0 /\ h_last_ok >= 0
        /\ call[t].since = "within"
        /\ last_tx_timestamp = h_last_ok

\* C40: no mask produced by the electrical task has the over-power bit
\* (bit 3) or the phase-imbalance bit (bit 7) set, and the emergency path of
\* the safety task is reached only with over-voltage or over-current.
C40_NoOverPowerBit ==
    /\ \A i \in 1..Len(alert_q) :
          And8(alert_q[i], SAFETY_OVERPOWER + SAFETY_PHASE_IMBALANCE) = 0
    /\ And8(safety_alert, SAFETY_OVERPOWER + SAFETY_PHASE_IMBALANCE) = 0
    /\ (safety_pc = "emergency" \/ h_emergency) =>
          And8(safety_alert, SAFETY_OVERVOLTAGE + SAFETY_OVERCURRENT) # 0

\* the emergency send has been made for a mask with over-current and
\* without over-voltage
C40_Witness ==
    /\ safety_pc = "delay" /\ h_emergency
    /\ And8(safety_alert, SAFETY_OVERCURRENT) # 0
    /\ And8(safety_alert, SAFETY_OVERVOLTAGE) = 0

====
